---- MODULE Spec2Model ----
(***************************************************************************)
(* The collect phase of librustc's type checker                            *)
(* (src/librustc/middle/typeck/collect.rs): the tables of the type         *)
(* context (tcache, ty_param_defs, trait_defs, supertraits, methods, ...)  *)
(* and the functions that fill them while the items of a crate are         *)
(* visited or their types are demanded.                                    *)
(*                                                                         *)
(* A second part models libextra's CVec (src/libextra/c_vec.rs), a vector  *)
(* over a foreign buffer, with its own specification CVecSpec.             *)
(***************************************************************************)
EXTENDS Integers, Sequences, FiniteSets, TLC

VARIABLES
    krate,     \* the crate being compiled: NodeId -> item or foreign item (read-only)
    tcx,       \* the type context: its tables, the session's errors, the abort state
    visited,   \* the items the visitor has already passed to convert / convert_foreign
    demands,   \* number of demand-driven calls made so far by other phases
    cvec,      \* the CVec of the task: its base, len and destructor, and the task's fate
    mem,       \* the foreign buffer: address -> cell, for the addresses allocated
    last       \* the last call made on the CVec, its result and the cells it touched

cvec_vars == <<cvec, mem, last>>
vars == <<krate, tcx, visited, demands, cvec, mem, last>>

(***************************************************************************)
(* Bounds of the model.                                                    *)
(***************************************************************************)
\* largest number of type parameters on a trait, struct, enum, fn or impl
MaxItemParams == 2
\* largest number of type parameters on a method
MaxMethodParams == 2
\* number of demand-driven calls (get_item_ty, get_trait_def, ensure_trait_methods)
MaxDemands == 2
\* depth of nested get_item_ty / get_trait_def calls the stack can hold
MaxDepth == 4
\* largest length of a CVec
MaxLen == 5
\* largest element stored in a CVec
MaxVal == 1
\* width of uint, int and of a pointer
UintBits == 3

(***************************************************************************)
(* Option, DefId                                                           *)
(***************************************************************************)
None == <<>>
Some(x) == <<x>>
is_some(o) == o /= <<>>
unwrap(o) == o[1]

LOCAL_CRATE == 0
local_def(id) == [krate |-> LOCAL_CRATE, node |-> id]
dummy_defid == [krate |-> 0, node |-> 0]
\* the lang item of the built-in kind Send, defined in another crate
send_defid == [krate |-> 1, node |-> 1]

Range(s) == {s[i] : i \in DOMAIN s}

(***************************************************************************)
(* Types, regions, substitutions (middle::ty)                              *)
(***************************************************************************)
mk_int == [sty |-> "ty_int"]
mk_err == [sty |-> "ty_err"]
mk_param(n, k) == [sty |-> "ty_param", idx |-> n, def_id |-> k]
mk_self(did) == [sty |-> "ty_self", def_id |-> did]
mk_struct(did, substs) == [sty |-> "ty_struct", def_id |-> did, substs |-> substs]
mk_enum(did, substs) == [sty |-> "ty_enum", def_id |-> did, substs |-> substs]
mk_bare_fn(fty) == [sty |-> "ty_bare_fn", inputs |-> fty.inputs, output |-> fty.output]
mk_ctor_fn(input_tys, output) == mk_bare_fn([inputs |-> input_tys, output |-> output])
\* the value that stands for an aborted substitution (sess.bug inside subst)
subst_bug == [sty |-> "ty_bug"]

ReEarlyBound(node, index, name) == [node |-> node, index |-> index, name |-> name]

no_params(t) ==
    [generics |-> [type_param_defs |-> <<>>, region_param_defs |-> <<>>], ty |-> t]

EmptyBuiltinBounds == {}

(***************************************************************************)
(* middle::subst: a type parameter with index i becomes substs.tps[i], the *)
(* self type becomes substs.self_ty, an early-bound region with index i    *)
(* becomes substs.regions[i]; the substitution is applied through nominal  *)
(* types, function types, trait references and parameter definitions.      *)
(***************************************************************************)
subst_region(substs, r) ==
    IF r.index + 1 \in DOMAIN substs.regions THEN substs.regions[r.index + 1] ELSE r

RECURSIVE subst(_, _)
RECURSIVE subst_substs(_, _)
subst(substs, t) ==
    CASE t.sty = "ty_param" ->
            IF t.idx + 1 \in DOMAIN substs.tps THEN substs.tps[t.idx + 1] ELSE subst_bug
      [] t.sty = "ty_self" ->
            IF is_some(substs.self_ty) THEN unwrap(substs.self_ty) ELSE subst_bug
      [] t.sty \in {"ty_struct", "ty_enum"} ->
            [t EXCEPT !.substs = subst_substs(substs, t.substs)]
      [] t.sty = "ty_bare_fn" ->
            [t EXCEPT !.inputs = [i \in DOMAIN t.inputs |-> subst(substs, t.inputs[i])],
                      !.output = subst(substs, t.output)]
      [] OTHER -> t

subst_substs(substs, s) ==
    [regions |-> [i \in DOMAIN s.regions |-> subst_region(substs, s.regions[i])],
     self_ty |-> [i \in DOMAIN s.self_ty |-> subst(substs, s.self_ty[i])],
     tps |-> [i \in DOMAIN s.tps |-> subst(substs, s.tps[i])]]

subst_trait_ref(substs, tr) == [tr EXCEPT !.substs = subst_substs(substs, tr.substs)]

subst_type_param_def(substs, def) ==
    [def EXCEPT
        !.bounds = [@ EXCEPT !.trait_bounds =
                        [i \in DOMAIN @ |-> subst_trait_ref(substs, @[i])]],
        !.default = [i \in DOMAIN @ |-> subst(substs, @[i])]]

subst_type_param_defs(substs, defs) ==
    [i \in DOMAIN defs |-> subst_type_param_def(substs, defs[i])]

(***************************************************************************)
(* The type context.  Table writes and error reports do nothing once the   *)
(* compilation has aborted (sess.bug, span_bug, span_fatal, fail!, a       *)
(* failed assert!, or a call stack that is exhausted), because the code    *)
(* after the aborting call never runs.                                     *)
(*                                                                         *)
(* Five fields record history and are read by no function of the pass:     *)
(*   overwritten  ids whose tcache entry was replaced by a different value *)
(*   built        id -> number of times the scheme of the id was built     *)
(*   returned     id -> the schemes get_item_ty / ty_of_item returned      *)
(*   generics     the calls of ty_generics: base index, the parameters of  *)
(*                the list, those found in ty_param_defs, and the result   *)
(*   ice          the span and message of the span_bug that ended the run  *)
(***************************************************************************)
\* Let([x \in {e} |-> body]) is body with x standing for the value of e
Let(f) == f[CHOOSE x \in DOMAIN f : TRUE]

R(c, v) == [tcx |-> c, v |-> v]
ok(c) == c.fault = "none"
abort(c, how) == IF ok(c) THEN [c EXCEPT !.fault = how] ELSE c

\* tcx.sess.span_bug: an internal compiler error at this node ends the compilation
span_bug(c, sp, msg) ==
    IF ok(c) THEN [c EXCEPT !.fault = "bug", !.ice = Some(<<sp, msg>>)] ELSE c

on_trait_msg == "invoked ty_of_item on trait"

empty_generics == [type_param_defs |-> <<>>, region_param_defs |-> <<>>]
empty_substs == [regions |-> <<>>, self_ty |-> None, tps |-> <<>>]
bad_tpt == no_params(mk_err)
bad_trait_def ==
    [generics |-> empty_generics, bounds |-> {},
     trait_ref |-> [def_id |-> dummy_defid, substs |-> empty_substs]]

new_tcx ==
    [tcache |-> <<>>, ty_param_defs |-> <<>>, trait_defs |-> <<>>,
     supertraits |-> <<>>, methods |-> <<>>, trait_method_def_ids |-> <<>>,
     struct_fields |-> <<>>, superstructs |-> <<>>, node_types |-> <<>>,
     errors |-> <<>>, fault |-> "none", ice |-> None,
     overwritten |-> {}, built |-> <<>>, returned |-> <<>>, generics |-> {}]

\* tcx.sess.span_err: one more error with this message at this node
span_err(c, sp, msg) ==
    IF ~ok(c) THEN c
    ELSE LET e == <<sp, msg>>
             n == IF e \in DOMAIN c.errors THEN c.errors[e] ELSE 0
         IN [c EXCEPT !.errors = (e :> n + 1) @@ @]

\* number of errors with this message reported at this node
errors_at(c, sp, msg) == IF <<sp, msg>> \in DOMAIN c.errors THEN c.errors[<<sp, msg>>] ELSE 0

\* HashMap::insert on one of the tables: the new value replaces the old one
table_insert(c, table, key, val) ==
    IF ~ok(c) THEN c ELSE [c EXCEPT ![table] = (key :> val) @@ @]

write_ty_to_tcx(c, node_id, t) == table_insert(c, "node_types", node_id, t)

\* variant: an insert that rejects a value differing from the entry already present
tcache_insert_checked(c, id, tpt) ==
    IF ~ok(c) THEN c
    ELSE IF id \in DOMAIN c.tcache /\ c.tcache[id] /= tpt THEN abort(c, "bug")
    ELSE [c EXCEPT !.tcache = (id :> tpt) @@ @]

\* tcx.tcache.borrow_mut().insert(id, tpt)
tcache_insert(c, id, tpt) ==
    IF ~ok(c) THEN c
    ELSE [c EXCEPT !.tcache = (id :> tpt) @@ @,
                   !.overwritten = IF id \in DOMAIN c.tcache /\ c.tcache[id] /= tpt
                                   THEN @ \cup {id} ELSE @]

note_built(c, id) ==
    IF ~ok(c) THEN c
    ELSE [c EXCEPT !.built = (id :> (IF id \in DOMAIN @ THEN @[id] ELSE 0) + 1) @@ @]

note_returned(c, id, tpt) ==
    IF ~ok(c) THEN c
    ELSE [c EXCEPT !.returned = (id :> ((IF id \in DOMAIN @ THEN @[id] ELSE {}) \cup {tpt})) @@ @]

note_generics(c, base_index, ty_params, reused, defs) ==
    IF ~ok(c) THEN c
    ELSE [c EXCEPT !.generics = @ \cup
            {[base_index |-> base_index,
              params |-> [i \in DOMAIN ty_params |-> ty_params[i].id],
              reused |-> reused,
              type_param_defs |-> defs]}]

(***************************************************************************)
(* The AST map and name resolution.                                        *)
(***************************************************************************)
ItemKinds == {"ItemStatic", "ItemFn", "ItemTy", "ItemEnum", "ItemStruct",
              "ItemTrait", "ItemImpl", "ItemMod"}
ForeignItemKinds == {"ForeignItemFn", "ForeignItemStatic"}

is_item(n) == n \in DOMAIN krate /\ krate[n].node \in ItemKinds
is_foreign_item(n) == n \in DOMAIN krate /\ krate[n].node \in ForeignItemKinds

\* tcx.lang_items.to_builtin_kind / ty::try_add_builtin_trait
to_builtin_kind(def_id) == IF def_id = send_defid THEN Some("BoundSend") ELSE None
try_add_builtin_trait(def_id) == is_some(to_builtin_kind(def_id))

\* resolve_lifetime::early_bound_lifetimes
early_bound_lifetimes(generics) == SelectSeq(generics.lifetimes, LAMBDA l : l.early)

\* the trait definition of the built-in kind, read from crate metadata
lookup_trait_def(trait_id) ==
    [generics |-> empty_generics, bounds |-> {},
     trait_ref |-> [def_id |-> trait_id,
                    substs |-> [regions |-> <<>>, self_ty |-> Some(mk_self(trait_id)),
                                tps |-> <<>>]]]

\* csearch::get_type: the scheme of an item of another crate, read from its
\* metadata; the other crates define no generic items
csearch_get_type(id) == no_params(mk_struct(id, empty_substs))

\* ty::walk_ty: the type parameters a type mentions, one entry per mention
RECURSIVE params_of(_)
RECURSIVE params_of_seq(_)
params_of(t) ==
    CASE t.sty = "ty_param" -> <<t>>
      [] t.sty \in {"ty_struct", "ty_enum"} -> params_of_seq(t.substs.tps)
      [] t.sty = "ty_bare_fn" -> params_of_seq(t.inputs) \o params_of(t.output)
      [] OTHER -> <<>>
params_of_seq(ts) == IF ts = <<>> THEN <<>> ELSE params_of(Head(ts)) \o params_of_seq(Tail(ts))

\* variant: parameter and region indices counted from one
mk_item_substs_one_based(ty_generics, self_ty) ==
    [regions |-> [i \in DOMAIN ty_generics.region_param_defs |->
                    ReEarlyBound(ty_generics.region_param_defs[i].def_id.node, i,
                                 ty_generics.region_param_defs[i].name)],
     self_ty |-> self_ty,
     tps |-> [i \in DOMAIN ty_generics.type_param_defs |->
                    mk_param(i, ty_generics.type_param_defs[i].def_id)]]

mk_item_substs(ty_generics, self_ty) ==
    [regions |-> [i \in DOMAIN ty_generics.region_param_defs |->
                    ReEarlyBound(ty_generics.region_param_defs[i].def_id.node, i - 1,
                                 ty_generics.region_param_defs[i].name)],
     self_ty |-> self_ty,
     tps |-> [i \in DOMAIN ty_generics.type_param_defs |->
                    mk_param(i - 1, ty_generics.type_param_defs[i].def_id)]]

(***************************************************************************)
(* Demand-driven resolution.  The functions below call one another: a type *)
(* expression that names an item demands that item's scheme, a trait       *)
(* reference (a bound, a supertrait) demands that trait's definition.  d   *)
(* is the number of get_item_ty / get_trait_def calls on the stack.        *)
(***************************************************************************)
RECURSIVE to_ty(_, _, _)
RECURSIVE to_tys(_, _, _)
RECURSIVE get_item_ty(_, _, _)
RECURSIVE ty_of_item(_, _, _)
RECURSIVE ty_of_foreign_item(_, _, _)
RECURSIVE ty_of_foreign_fn_decl(_, _, _)
RECURSIVE ty_generics(_, _, _, _, _)
RECURSIVE type_param_defs_from(_, _, _, _, _)
RECURSIVE new_type_param_def(_, _, _, _)
RECURSIVE param_default(_, _, _, _)
RECURSIVE fn_sig(_, _, _)
RECURSIVE build_item_ty(_, _, _)
RECURSIVE compute_bounds(_, _, _, _, _)
RECURSIVE instantiate_trait_ref(_, _, _, _)
RECURSIVE get_trait_def(_, _, _)
RECURSIVE trait_def_of_item(_, _, _)
RECURSIVE ensure_supertraits(_, _, _, _)
RECURSIVE supertraits_from(_, _, _, _, _, _, _)

\* astconv::ast_ty_to_ty with an ExplicitRscope
to_ty(c, ast_ty, d) ==
    CASE ast_ty.t = "TyInt" -> R(c, mk_int)
      [] ast_ty.t = "TyParam" -> R(c, mk_param(ast_ty.idx, local_def(ast_ty.id)))
      [] ast_ty.t = "TySelf" -> R(c, mk_self(local_def(ast_ty.id)))
      [] ast_ty.t = "TyPath" ->
            Let([decl \in {get_item_ty(c, local_def(ast_ty.id), d)} |->
            IF ~ok(decl.tcx) THEN R(decl.tcx, mk_err) ELSE
            Let([args \in {to_tys(decl.tcx, ast_ty.args, d)} |->
            IF ~ok(args.tcx) THEN R(args.tcx, mk_err) ELSE
            R(args.tcx,
              subst([regions |-> <<>>, self_ty |-> None, tps |-> args.v], decl.v.ty))])])

to_tys(c, ast_tys, d) ==
    IF ast_tys = <<>> THEN R(c, <<>>) ELSE
    Let([h \in {to_ty(c, Head(ast_tys), d)} |->
    IF ~ok(h.tcx) THEN R(h.tcx, <<>>) ELSE
    Let([r \in {to_tys(h.tcx, Tail(ast_tys), d)} |->
    R(r.tcx, <<h.v>> \o r.v)])])

ty_generics_for_type(c, generics, d) ==
    ty_generics(c, generics.lifetimes, generics.ty_params, 0, d)

ty_generics_for_fn_or_method(c, generics, base_index, d) ==
    ty_generics(c, early_bound_lifetimes(generics), generics.ty_params, base_index, d)

get_item_ty(c, id, d) ==
    IF ~ok(c) THEN R(c, bad_tpt)
    ELSE IF d > MaxDepth THEN R(abort(c, "overflow"), bad_tpt)
    ELSE IF id.krate /= LOCAL_CRATE THEN R(c, csearch_get_type(id))
    ELSE IF is_item(id.node) THEN ty_of_item(c, krate[id.node], d + 1)
    ELSE IF is_foreign_item(id.node) THEN ty_of_foreign_item(c, krate[id.node], d + 1)
    ELSE R(abort(c, "bug"), bad_tpt)

\* astconv::ty_of_bare_fn, and the signature of a foreign fn: inputs, then output
fn_sig(c, decl, d) ==
    Let([ins \in {to_tys(c, decl.inputs, d)} |->
    IF ~ok(ins.tcx) THEN R(ins.tcx, mk_err) ELSE
    Let([out \in {to_ty(ins.tcx, decl.output, d)} |->
    R(out.tcx, mk_bare_fn([inputs |-> ins.v, output |-> out.v]))])])

\* the arms of ty_of_item that build a scheme
build_item_ty(c, it, d) ==
    CASE it.node = "ItemStatic" ->
            Let([typ \in {to_ty(c, it.ty, d)} |-> R(typ.tcx, no_params(typ.v))])
      [] it.node = "ItemFn" ->
            Let([g \in {ty_generics_for_fn_or_method(c, it.generics, 0, d)} |->
            IF ~ok(g.tcx) THEN R(g.tcx, bad_tpt) ELSE
            Let([tofd \in {fn_sig(g.tcx, it.decl, d)} |->
            R(tofd.tcx, [generics |-> g.v, ty |-> tofd.v])])])
      [] it.node = "ItemTy" ->
            Let([t \in {to_ty(c, it.ty, d)} |->
            IF ~ok(t.tcx) THEN R(t.tcx, bad_tpt) ELSE
            Let([g \in {ty_generics_for_type(t.tcx, it.generics, d)} |->
            R(g.tcx, [generics |-> g.v, ty |-> t.v])])])
      [] it.node = "ItemEnum" ->
            Let([g \in {ty_generics_for_type(c, it.generics, d)} |->
            R(g.tcx, [generics |-> g.v,
                      ty |-> mk_enum(local_def(it.id), mk_item_substs(g.v, None))])])
      [] it.node = "ItemStruct" ->
            Let([g \in {ty_generics_for_type(c, it.generics, d)} |->
            R(g.tcx, [generics |-> g.v,
                      ty |-> mk_struct(local_def(it.id), mk_item_substs(g.v, None))])])

\* variant: the scheme is stored without its generics
ty_of_item_store_erased(tpt, def_id) ==
    IF ~ok(tpt.tcx) THEN R(tpt.tcx, bad_tpt) ELSE
    R(note_returned(tcache_insert(tpt.tcx, def_id, no_params(tpt.v.ty)), def_id, tpt.v),
      tpt.v)

\* the end of ty_of_item: the scheme is stored in tcache and returned
ty_of_item_store(tpt, def_id) ==
    IF ~ok(tpt.tcx) THEN R(tpt.tcx, bad_tpt) ELSE
    R(note_returned(tcache_insert(tpt.tcx, def_id, tpt.v), def_id, tpt.v), tpt.v)

\* variant: ty_of_item without the lookup in tcache
ty_of_item_uncached(c, it, d) ==
    IF ~ok(c) THEN R(c, bad_tpt)
    ELSE IF it.node = "ItemTrait" THEN R(span_bug(c, it.id, on_trait_msg), bad_tpt)
    ELSE IF it.node \in {"ItemImpl", "ItemMod"} THEN R(abort(c, "fail"), bad_tpt)
    ELSE ty_of_item_store(build_item_ty(note_built(c, local_def(it.id)), it, d),
                          local_def(it.id))

\* variant: a trait is given the scheme of its self type
ty_of_item_trait_scheme(c, it, d) ==
    IF ~ok(c) THEN R(c, bad_tpt)
    ELSE IF local_def(it.id) \in DOMAIN c.tcache
    THEN R(note_returned(c, local_def(it.id), c.tcache[local_def(it.id)]),
           c.tcache[local_def(it.id)])
    ELSE IF it.node = "ItemTrait"
    THEN ty_of_item_store(R(c, no_params(mk_self(local_def(it.id)))), local_def(it.id))
    ELSE IF it.node \in {"ItemImpl", "ItemMod"} THEN R(abort(c, "fail"), bad_tpt)
    ELSE ty_of_item_store(build_item_ty(note_built(c, local_def(it.id)), it, d),
                          local_def(it.id))

ty_of_item(c, it, d) ==
    IF ~ok(c) THEN R(c, bad_tpt)
    ELSE IF local_def(it.id) \in DOMAIN c.tcache
    THEN R(note_returned(c, local_def(it.id), c.tcache[local_def(it.id)]),
           c.tcache[local_def(it.id)])
    ELSE IF it.node = "ItemTrait" THEN R(span_bug(c, it.id, on_trait_msg), bad_tpt)
    ELSE IF it.node \in {"ItemImpl", "ItemMod"} THEN R(abort(c, "fail"), bad_tpt)
    ELSE ty_of_item_store(build_item_ty(note_built(c, local_def(it.id)), it, d),
                          local_def(it.id))

ty_of_foreign_item(c, it, d) ==
    IF ~ok(c) THEN R(c, bad_tpt) ELSE
    Let([tpt \in {IF it.node = "ForeignItemFn"
                  THEN ty_of_foreign_fn_decl(note_built(c, local_def(it.id)), it, d)
                  ELSE Let([t \in {to_ty(note_built(c, local_def(it.id)), it.ty, d)} |->
                           R(t.tcx, no_params(t.v))])} |->
    IF ~ok(tpt.tcx) THEN R(tpt.tcx, bad_tpt) ELSE
    R(note_returned(tpt.tcx, local_def(it.id), tpt.v), tpt.v)])

\* the loop of ty_of_foreign_fn_decl over the patterns of the arguments
RECURSIVE foreign_pattern_errors(_, _, _)
foreign_pattern_errors(c, pats, i) ==
    IF i > Len(pats) THEN c
    ELSE foreign_pattern_errors(
            IF pats[i].pat \in {"PatIdent", "PatWild"} THEN c
            ELSE span_err(c, pats[i].id,
                          "patterns aren't allowed in foreign function declarations"),
            pats, i + 1)

ty_of_foreign_fn_decl(c, it, d) ==
    Let([g \in {ty_generics_for_fn_or_method(
                    foreign_pattern_errors(c, it.decl.pats, 1), it.generics, 0, d)} |->
    IF ~ok(g.tcx) THEN R(g.tcx, bad_tpt) ELSE
    Let([t_fn \in {fn_sig(g.tcx, it.decl, d)} |->
    IF ~ok(t_fn.tcx) THEN R(t_fn.tcx, bad_tpt) ELSE
    R(tcache_insert(t_fn.tcx, local_def(it.id), [generics |-> g.v, ty |-> t_fn.v]),
      [generics |-> g.v, ty |-> t_fn.v])])])

\* the result of ty_generics, the call being recorded in the history
ty_generics_result(c, tps, lifetimes, ty_params, base_index) ==
    R(note_generics(tps.tcx, base_index, ty_params,
                    {i \in DOMAIN ty_params : ty_params[i].id \in DOMAIN c.ty_param_defs},
                    tps.v),
      [region_param_defs |-> [i \in DOMAIN lifetimes |->
                                 [name |-> lifetimes[i].name,
                                  def_id |-> local_def(lifetimes[i].id)]],
       type_param_defs |-> tps.v])

\* variant: ty_generics numbering the parameters from 0 whatever the base index
ty_generics_no_base(c, lifetimes, ty_params, base_index, d) ==
    ty_generics_result(c, type_param_defs_from(c, ty_params, 0, 0, d),
                       lifetimes, ty_params, base_index)

ty_generics(c, lifetimes, ty_params, base_index, d) ==
    ty_generics_result(c, type_param_defs_from(c, ty_params, base_index, 0, d),
                       lifetimes, ty_params, base_index)

\* variant: a definition found in ty_param_defs is returned without its trait bounds
type_param_defs_from_stale(c, ty_params, base_index, offset, d) ==
    IF offset >= Len(ty_params) THEN R(c, <<>>) ELSE
    Let([def \in {IF ty_params[offset + 1].id \in DOMAIN c.ty_param_defs
                  THEN R(c, [c.ty_param_defs[ty_params[offset + 1].id]
                                EXCEPT !.bounds.trait_bounds = <<>>])
                  ELSE new_type_param_def(c, ty_params[offset + 1],
                                          base_index + offset, d)} |->
    IF ~ok(def.tcx) THEN R(def.tcx, <<>>) ELSE
    Let([rest \in {type_param_defs_from(def.tcx, ty_params, base_index, offset + 1, d)} |->
    R(rest.tcx, <<def.v>> \o rest.v)])])

\* the closure ty_generics maps over ty_params, from position offset on
type_param_defs_from(c, ty_params, base_index, offset, d) ==
    IF offset >= Len(ty_params) THEN R(c, <<>>) ELSE
    Let([def \in {IF ty_params[offset + 1].id \in DOMAIN c.ty_param_defs
                  THEN R(c, c.ty_param_defs[ty_params[offset + 1].id])
                  ELSE new_type_param_def(c, ty_params[offset + 1],
                                          base_index + offset, d)} |->
    IF ~ok(def.tcx) THEN R(def.tcx, <<>>) ELSE
    Let([rest \in {type_param_defs_from(def.tcx, ty_params, base_index, offset + 1, d)} |->
    R(rest.tcx, <<def.v>> \o rest.v)])])

\* the errors for a default that mentions the parameters ps from position i on
RECURSIVE forward_default_errors(_, _, _, _, _)
forward_default_errors(c, sp, ps, i, cur_idx) ==
    IF i > Len(ps) THEN c
    ELSE forward_default_errors(
            IF ps[i].idx > cur_idx
            THEN span_err(c, sp, "type parameters with a default cannot use forward declared identifiers")
            ELSE c,
            sp, ps, i + 1, cur_idx)

\* the default of a type parameter, checked for forward references
param_default(c, param, cur_idx, d) ==
    IF ~is_some(param.default) THEN R(c, None) ELSE
    Let([t \in {to_ty(c, unwrap(param.default), d)} |->
    IF ~ok(t.tcx) THEN R(t.tcx, None) ELSE
    R(forward_default_errors(t.tcx, param.id, params_of(t.v), 1, cur_idx), Some(t.v))])

\* the unwrap_or_else closure of ty_generics: build the definition and record it
new_type_param_def(c, param, idx, d) ==
    Let([bounds \in {compute_bounds(c, [idx |-> idx, def_id |-> local_def(param.id)],
                                    param.bounds, 1, d)} |->
    IF ~ok(bounds.tcx) THEN R(bounds.tcx, bounds.v) ELSE
    Let([default \in {param_default(bounds.tcx, param, idx, d)} |->
    IF ~ok(default.tcx) THEN R(default.tcx, bounds.v) ELSE
    Let([def \in {[ident |-> param.ident, def_id |-> local_def(param.id),
                   bounds |-> bounds.v, default |-> default.v]} |->
    R(table_insert(default.tcx, "ty_param_defs", param.id, def), def)])])])

no_bounds == [builtin_bounds |-> EmptyBuiltinBounds, trait_bounds |-> <<>>]

\* compute_bounds, from the i-th bound on
compute_bounds(c, param_ty, ast_bounds, i, d) ==
    IF i > Len(ast_bounds) \/ ~ok(c) THEN R(c, no_bounds)
    ELSE IF ast_bounds[i].b = "RegionTyParamBound"
    THEN Let([rest \in {compute_bounds(c, param_ty, ast_bounds, i + 1, d)} |->
         R(rest.tcx, [rest.v EXCEPT !.builtin_bounds = @ \cup {"BoundStatic"}])])
    ELSE Let([trait_ref \in {instantiate_trait_ref(c, ast_bounds[i].tref,
                                mk_param(param_ty.idx, param_ty.def_id), d)} |->
         IF ~ok(trait_ref.tcx) THEN R(trait_ref.tcx, no_bounds) ELSE
         Let([rest \in {compute_bounds(trait_ref.tcx, param_ty, ast_bounds, i + 1, d)} |->
         IF try_add_builtin_trait(trait_ref.v.def_id)
         THEN R(rest.tcx, [rest.v EXCEPT !.builtin_bounds =
                             @ \cup {unwrap(to_builtin_kind(trait_ref.v.def_id))}])
         ELSE R(rest.tcx, [rest.v EXCEPT !.trait_bounds = <<trait_ref.v>> \o @])])])

bad_trait_ref == [def_id |-> dummy_defid, substs |-> empty_substs]

\* lookup_def_tcx, then astconv::ast_path_to_trait_ref: the definition of the
\* trait is demanded and the path's arguments become the substitution
instantiate_trait_ref(c, ast_trait_ref, self_ty, d) ==
    IF ast_trait_ref.def.d /= "DefTrait" THEN R(abort(c, "fatal"), bad_trait_ref) ELSE
    Let([trait_def \in {get_trait_def(c, ast_trait_ref.def.id, d)} |->
    IF ~ok(trait_def.tcx) THEN R(trait_def.tcx, bad_trait_ref) ELSE
    Let([args \in {to_tys(trait_def.tcx, ast_trait_ref.args, d)} |->
    R(args.tcx,
      [def_id |-> ast_trait_ref.def.id,
       substs |-> [regions |-> <<>>, self_ty |-> Some(self_ty), tps |-> args.v]])])])

get_trait_def(c, trait_id, d) ==
    IF ~ok(c) THEN R(c, bad_trait_def)
    ELSE IF d > MaxDepth THEN R(abort(c, "overflow"), bad_trait_def)
    ELSE IF trait_id.krate /= LOCAL_CRATE THEN R(c, lookup_trait_def(trait_id))
    ELSE IF is_item(trait_id.node) THEN trait_def_of_item(c, krate[trait_id.node], d + 1)
    ELSE R(abort(c, "bug"), bad_trait_def)

\* variant: trait_def_of_item without the lookup in trait_defs
trait_def_of_item_uncached(c, it, d) ==
    IF ~ok(c) THEN R(c, bad_trait_def)
    ELSE IF it.node /= "ItemTrait" THEN R(span_bug(c, it.id, "trait_def_of_item invoked on a non-trait"), bad_trait_def)
    ELSE Let([g \in {ty_generics_for_type(c, it.generics, d)} |->
         IF ~ok(g.tcx) THEN R(g.tcx, bad_trait_def) ELSE
         Let([bounds \in {ensure_supertraits(g.tcx, it.id, it.supertraits, d)} |->
         IF ~ok(bounds.tcx) THEN R(bounds.tcx, bad_trait_def) ELSE
         Let([trait_def \in
                {[generics |-> g.v, bounds |-> bounds.v,
                  trait_ref |->
                      [def_id |-> local_def(it.id),
                       substs |-> mk_item_substs(g.v, Some(mk_self(local_def(it.id))))]]} |->
         R(table_insert(bounds.tcx, "trait_defs", local_def(it.id), trait_def),
           trait_def)])])])

trait_def_of_item(c, it, d) ==
    IF ~ok(c) THEN R(c, bad_trait_def)
    ELSE IF local_def(it.id) \in DOMAIN c.trait_defs
    THEN R(c, c.trait_defs[local_def(it.id)])
    ELSE IF it.node /= "ItemTrait" THEN R(span_bug(c, it.id, "trait_def_of_item invoked on a non-trait"), bad_trait_def)
    ELSE Let([g \in {ty_generics_for_type(c, it.generics, d)} |->
         IF ~ok(g.tcx) THEN R(g.tcx, bad_trait_def) ELSE
         Let([bounds \in {ensure_supertraits(g.tcx, it.id, it.supertraits, d)} |->
         IF ~ok(bounds.tcx) THEN R(bounds.tcx, bad_trait_def) ELSE
         Let([trait_def \in
                {[generics |-> g.v, bounds |-> bounds.v,
                  trait_ref |->
                      [def_id |-> local_def(it.id),
                       substs |-> mk_item_substs(g.v, Some(mk_self(local_def(it.id))))]]} |->
         R(table_insert(bounds.tcx, "trait_defs", local_def(it.id), trait_def),
           trait_def)])])])

ensure_supertraits(c, id, ast_trait_refs, d) ==
    IF ~ok(c) THEN R(c, EmptyBuiltinBounds)
    ELSE IF local_def(id) \in DOMAIN c.supertraits
    THEN R(abort(c, "assert"), EmptyBuiltinBounds)
    ELSE Let([r \in {supertraits_from(c, id, ast_trait_refs, 1, <<>>,
                                      EmptyBuiltinBounds, d)} |->
         IF ~ok(r.tcx) THEN R(r.tcx, EmptyBuiltinBounds) ELSE
         R(table_insert(r.tcx, "supertraits", local_def(id), r.v.ty_trait_refs),
           r.v.bounds)])

\* variant: the loop of ensure_supertraits without the test for a supertrait seen before
supertraits_from_unchecked(c, id, ast_trait_refs, i, ty_trait_refs, bounds, d) ==
    IF i > Len(ast_trait_refs) \/ ~ok(c)
    THEN R(c, [ty_trait_refs |-> ty_trait_refs, bounds |-> bounds])
    ELSE Let([trait_ref \in {instantiate_trait_ref(c, ast_trait_refs[i],
                                                   mk_self(local_def(id)), d)} |->
         IF ~ok(trait_ref.tcx)
         THEN R(trait_ref.tcx, [ty_trait_refs |-> ty_trait_refs, bounds |-> bounds])
         ELSE IF try_add_builtin_trait(ast_trait_refs[i].def.id)
         THEN supertraits_from(trait_ref.tcx, id, ast_trait_refs, i + 1, ty_trait_refs,
                 bounds \cup {unwrap(to_builtin_kind(ast_trait_refs[i].def.id))}, d)
         ELSE supertraits_from(trait_ref.tcx, id, ast_trait_refs, i + 1,
                               Append(ty_trait_refs, trait_ref.v), bounds, d)])

\* variant: the loop goes on after a supertrait seen before
supertraits_from_skipping(c, id, ast_trait_refs, i, ty_trait_refs, bounds, d) ==
    IF i > Len(ast_trait_refs) \/ ~ok(c)
    THEN R(c, [ty_trait_refs |-> ty_trait_refs, bounds |-> bounds])
    ELSE Let([trait_ref \in {instantiate_trait_ref(c, ast_trait_refs[i],
                                                   mk_self(local_def(id)), d)} |->
         IF ~ok(trait_ref.tcx)
         THEN R(trait_ref.tcx, [ty_trait_refs |-> ty_trait_refs, bounds |-> bounds])
         ELSE IF try_add_builtin_trait(ast_trait_refs[i].def.id)
         THEN supertraits_from(trait_ref.tcx, id, ast_trait_refs, i + 1, ty_trait_refs,
                 bounds \cup {unwrap(to_builtin_kind(ast_trait_refs[i].def.id))}, d)
         ELSE IF \E j \in DOMAIN ty_trait_refs :
                     ty_trait_refs[j].def_id = trait_ref.v.def_id
         THEN supertraits_from(
                 span_err(trait_ref.tcx, id, "duplicate supertrait in trait declaration"),
                 id, ast_trait_refs, i + 1, ty_trait_refs, bounds, d)
         ELSE supertraits_from(trait_ref.tcx, id, ast_trait_refs, i + 1,
                               Append(ty_trait_refs, trait_ref.v), bounds, d)])

\* the loop of ensure_supertraits, from the i-th declared supertrait on
supertraits_from(c, id, ast_trait_refs, i, ty_trait_refs, bounds, d) ==
    IF i > Len(ast_trait_refs) \/ ~ok(c)
    THEN R(c, [ty_trait_refs |-> ty_trait_refs, bounds |-> bounds])
    ELSE Let([trait_ref \in {instantiate_trait_ref(c, ast_trait_refs[i],
                                                   mk_self(local_def(id)), d)} |->
         IF ~ok(trait_ref.tcx)
         THEN R(trait_ref.tcx, [ty_trait_refs |-> ty_trait_refs, bounds |-> bounds])
         ELSE IF try_add_builtin_trait(ast_trait_refs[i].def.id)
         THEN supertraits_from(trait_ref.tcx, id, ast_trait_refs, i + 1, ty_trait_refs,
                 bounds \cup {unwrap(to_builtin_kind(ast_trait_refs[i].def.id))}, d)
         ELSE IF \E j \in DOMAIN ty_trait_refs :
                     ty_trait_refs[j].def_id = trait_ref.v.def_id
         THEN R(span_err(trait_ref.tcx, id, "duplicate supertrait in trait declaration"),
                [ty_trait_refs |-> ty_trait_refs, bounds |-> bounds])
         ELSE supertraits_from(trait_ref.tcx, id, ast_trait_refs, i + 1,
                               Append(ty_trait_refs, trait_ref.v), bounds, d)])

(***************************************************************************)
(* Methods of traits and impls.                                            *)
(***************************************************************************)
\* astconv::ty_of_method: the signature, with the receiver first unless static
astconv_ty_of_method(c, untransformed_rcvr_ty, explicit_self, decl) ==
    Let([ins \in {to_tys(c, decl.inputs, 0)} |->
    IF ~ok(ins.tcx) THEN R(ins.tcx, [inputs |-> <<>>, output |-> mk_err]) ELSE
    Let([out \in {to_ty(ins.tcx, decl.output, 0)} |->
    R(out.tcx,
      [inputs |-> (IF explicit_self = "SelfStatic" THEN <<>>
                   ELSE <<untransformed_rcvr_ty>>) \o ins.v,
       output |-> out.v])])])

\* variant: the method keeps what it declares
inherit_from_nothing(vis, parent_visibility) == vis

\* ast::Visibility::inherit_from
inherit_from(vis, parent_visibility) ==
    IF vis = "Inherited" THEN parent_visibility ELSE vis

ty_Method_new(ident, generics, fty, explicit_self, vis, def_id, container) ==
    [ident |-> ident, generics |-> generics, fty |-> fty,
     explicit_self |-> explicit_self, vis |-> vis, def_id |-> def_id,
     container |-> container, provided_source |-> None]

bad_method ==
    ty_Method_new("", empty_generics, [inputs |-> <<>>, output |-> mk_err],
                  "SelfStatic", "Inherited", dummy_defid, None)

\* the function ty_of_method nested in convert_methods
ty_of_method(c, container, m, untransformed_rcvr_ty, rcvr_generics, rcvr_visibility) ==
    Let([fty \in {astconv_ty_of_method(c, untransformed_rcvr_ty, m.explicit_self,
                                       m.decl)} |->
    IF ~ok(fty.tcx) THEN R(fty.tcx, bad_method) ELSE
    Let([m_ty_generics \in {ty_generics_for_fn_or_method(fty.tcx, m.generics,
                                Len(rcvr_generics.ty_params), 0)} |->
    R(m_ty_generics.tcx,
      ty_Method_new(m.ident, m_ty_generics.v, fty.v, m.explicit_self,
                    inherit_from(m.vis, rcvr_visibility), local_def(m.id),
                    container))])])

\* variant: the method's own parameters are numbered from 0
convert_method_from_zero(c, container, m, seen_before, untransformed_rcvr_ty, rcvr_ty_generics, rcvr_ast_generics, rcvr_visibility) ==
    Let([m_ty_generics \in
            {ty_generics_for_fn_or_method(
                IF seen_before THEN span_err(c, m.id, "duplicate method in trait impl")
                ELSE c,
                m.generics, 0, 0)} |->
    IF ~ok(m_ty_generics.tcx) THEN m_ty_generics.tcx ELSE
    Let([mty \in {ty_of_method(m_ty_generics.tcx, container, m, untransformed_rcvr_ty,
                               rcvr_ast_generics, rcvr_visibility)} |->
    IF ~ok(mty.tcx) THEN mty.tcx ELSE
    table_insert(
        write_ty_to_tcx(
            tcache_insert(mty.tcx, local_def(m.id),
                [generics |->
                    [type_param_defs |-> rcvr_ty_generics.type_param_defs
                                            \o m_ty_generics.v.type_param_defs,
                     region_param_defs |-> rcvr_ty_generics.region_param_defs
                                            \o m_ty_generics.v.region_param_defs],
                 ty |-> mk_bare_fn(mty.v.fty)]),
            m.id, mk_bare_fn(mty.v.fty)),
        "methods", mty.v.def_id, mty.v)])])

\* the body of the loop of convert_methods for one method
convert_method(c, container, m, seen_before, untransformed_rcvr_ty, rcvr_ty_generics, rcvr_ast_generics, rcvr_visibility) ==
    Let([m_ty_generics \in
            {ty_generics_for_fn_or_method(
                IF seen_before THEN span_err(c, m.id, "duplicate method in trait impl")
                ELSE c,
                m.generics, Len(rcvr_ty_generics.type_param_defs), 0)} |->
    IF ~ok(m_ty_generics.tcx) THEN m_ty_generics.tcx ELSE
    Let([mty \in {ty_of_method(m_ty_generics.tcx, container, m, untransformed_rcvr_ty,
                               rcvr_ast_generics, rcvr_visibility)} |->
    IF ~ok(mty.tcx) THEN mty.tcx ELSE
    table_insert(
        write_ty_to_tcx(
            tcache_insert(mty.tcx, local_def(m.id),
                [generics |->
                    [type_param_defs |-> rcvr_ty_generics.type_param_defs
                                            \o m_ty_generics.v.type_param_defs,
                     region_param_defs |-> rcvr_ty_generics.region_param_defs
                                            \o m_ty_generics.v.region_param_defs],
                 ty |-> mk_bare_fn(mty.v.fty)]),
            m.id, mk_bare_fn(mty.v.fty)),
        "methods", mty.v.def_id, mty.v)])])

RECURSIVE convert_methods_from(_, _, _, _, _, _, _, _)
convert_methods_from(c, container, ms, i, untransformed_rcvr_ty, rcvr_ty_generics, rcvr_ast_generics, rcvr_visibility) ==
    IF i > Len(ms) \/ ~ok(c) THEN c ELSE
    convert_methods_from(
        convert_method(c, container, ms[i],
                       \E j \in 1..(i - 1) : ms[j].ident = ms[i].ident,
                       untransformed_rcvr_ty, rcvr_ty_generics, rcvr_ast_generics,
                       rcvr_visibility),
        container, ms, i + 1, untransformed_rcvr_ty,
        rcvr_ty_generics, rcvr_ast_generics, rcvr_visibility)

convert_methods(c, container, ms, untransformed_rcvr_ty, rcvr_ty_generics, rcvr_ast_generics, rcvr_visibility) ==
    convert_methods_from(c, container, ms, 1, untransformed_rcvr_ty,
                         rcvr_ty_generics, rcvr_ast_generics, rcvr_visibility)

\* variant: the method is recorded as contained in an impl
ty_method_of_trait_method_in_impl(c, trait_id, trait_generics, m) ==
    Let([fty \in {astconv_ty_of_method(c, mk_self(local_def(trait_id)),
                                       m.explicit_self, m.decl)} |->
    IF ~ok(fty.tcx) THEN R(fty.tcx, bad_method) ELSE
    Let([g \in {ty_generics_for_fn_or_method(fty.tcx, m.generics,
                    Len(trait_generics.type_param_defs), 0)} |->
    R(g.tcx,
      ty_Method_new(m.ident, g.v, fty.v, m.explicit_self, "Public", local_def(m.id),
                    [c |-> "ImplContainer", id |-> local_def(trait_id)]))])])

ty_method_of_trait_method(c, trait_id, trait_generics, m) ==
    Let([fty \in {astconv_ty_of_method(c, mk_self(local_def(trait_id)),
                                       m.explicit_self, m.decl)} |->
    IF ~ok(fty.tcx) THEN R(fty.tcx, bad_method) ELSE
    Let([g \in {ty_generics_for_fn_or_method(fty.tcx, m.generics,
                    Len(trait_generics.type_param_defs), 0)} |->
    R(g.tcx,
      ty_Method_new(m.ident, g.v, fty.v, m.explicit_self, "Public", local_def(m.id),
                    [c |-> "TraitContainer", id |-> local_def(trait_id)]))])])

\* variant: the method's own parameters left where they were, on top of Self
unshifted_method_tps(m, num_trait_bounds) ==
    [i \in DOMAIN m.generics.type_param_defs |->
        mk_param((i - 1) + num_trait_bounds, m.generics.type_param_defs[i].def_id)]

\* [E',F',G']: the method's own parameters, moved past the trait's and Self
shifted_method_tps(m, num_trait_bounds) ==
    [i \in DOMAIN m.generics.type_param_defs |->
        mk_param((i - 1) + num_trait_bounds + 1, m.generics.type_param_defs[i].def_id)]

\* the substitution make_static_method_ty builds
static_method_substs(m, trait_ty_generics) ==
    LET num_trait_bounds == Len(trait_ty_generics.type_param_defs)
        non_shifted_trait_tps ==
            [i \in 1..num_trait_bounds |->
                mk_param(i - 1, trait_ty_generics.type_param_defs[i].def_id)]
        self_param == mk_param(num_trait_bounds, dummy_defid)
        rps_from_trait ==
            [i \in DOMAIN trait_ty_generics.region_param_defs |->
                ReEarlyBound(trait_ty_generics.region_param_defs[i].def_id.node, i - 1,
                             trait_ty_generics.region_param_defs[i].name)]
    IN [regions |-> rps_from_trait,
        self_ty |-> Some(self_param),
        tps |-> non_shifted_trait_tps \o shifted_method_tps(m, num_trait_bounds)]

\* the end of make_static_method_ty: the new scheme, stored in tcache
static_method_scheme(self_trait_def, substs, m, trait_ty_generics) ==
    IF ~ok(self_trait_def.tcx) THEN self_trait_def.tcx ELSE
    tcache_insert(self_trait_def.tcx, m.def_id,
        [generics |->
            [type_param_defs |->
                subst_type_param_defs(substs, trait_ty_generics.type_param_defs)
                \o <<[ident |-> "self", def_id |-> dummy_defid,
                      bounds |-> [builtin_bounds |-> EmptyBuiltinBounds,
                                  trait_bounds |->
                                      <<subst_trait_ref(substs,
                                                        self_trait_def.v.trait_ref)>>],
                      default |-> None]>>
                \o subst_type_param_defs(substs, m.generics.type_param_defs),
             region_param_defs |-> trait_ty_generics.region_param_defs],
         ty |-> subst(substs, mk_bare_fn(m.fty))])

make_static_method_ty(c, trait_id, m, trait_ty_generics) ==
    static_method_scheme(get_trait_def(c, local_def(trait_id), 0),
                         static_method_substs(m, trait_ty_generics),
                         m, trait_ty_generics)

\* variant: static methods are registered like the others
ensure_trait_method_plain(c, trait_id, trait_ty_generics, m) ==
    Let([ty_method \in {ty_method_of_trait_method(c, trait_id, trait_ty_generics, m)} |->
    IF ~ok(ty_method.tcx) THEN ty_method.tcx ELSE
    table_insert(ty_method.tcx, "methods", ty_method.v.def_id, ty_method.v)])

\* the body of the loop of ensure_trait_methods for one method
ensure_trait_method(c, trait_id, trait_ty_generics, m) ==
    Let([ty_method \in {ty_method_of_trait_method(c, trait_id, trait_ty_generics, m)} |->
    IF ~ok(ty_method.tcx) THEN ty_method.tcx ELSE
    table_insert(IF ty_method.v.explicit_self = "SelfStatic"
                 THEN make_static_method_ty(ty_method.tcx, trait_id, ty_method.v,
                                            trait_ty_generics)
                 ELSE ty_method.tcx,
                 "methods", ty_method.v.def_id, ty_method.v)])

RECURSIVE ensure_trait_methods_from(_, _, _, _, _)
ensure_trait_methods_from(c, trait_id, trait_ty_generics, ms, i) ==
    IF i > Len(ms) \/ ~ok(c) THEN c ELSE
    ensure_trait_methods_from(ensure_trait_method(c, trait_id, trait_ty_generics, ms[i]),
                              trait_id, trait_ty_generics, ms, i + 1)

ensure_trait_methods(c, trait_id) ==
    IF ~ok(c) \/ ~is_item(trait_id) THEN c
    ELSE IF krate[trait_id].node /= "ItemTrait" THEN c
    ELSE Let([trait_ty_generics \in
                {ty_generics_for_type(c, krate[trait_id].generics, 0)} |->
         IF ~ok(trait_ty_generics.tcx) THEN trait_ty_generics.tcx ELSE
         table_insert(
            ensure_trait_methods_from(trait_ty_generics.tcx, trait_id,
                                      trait_ty_generics.v, krate[trait_id].methods, 1),
            "trait_method_def_ids", local_def(trait_id),
            [i \in DOMAIN krate[trait_id].methods |->
                local_def(krate[trait_id].methods[i].id)])])

(***************************************************************************)
(* Structs and enums.                                                      *)
(***************************************************************************)
unnamed_field == "<unnamed_field>"

bad_field == [name |-> "", id |-> dummy_defid, vis |-> "Inherited", origin |-> dummy_defid]

\* variant: the field's type is written to the node table only
convert_field_untabled(c, struct_generics, v, origin) ==
    Let([tt \in {to_ty(c, v.ty, 0)} |->
    IF ~ok(tt.tcx) THEN R(tt.tcx, bad_field) ELSE
    R(write_ty_to_tcx(tt.tcx, v.id, tt.v),
      [name |-> IF v.kind = "NamedField" THEN v.name ELSE unnamed_field,
       id |-> local_def(v.id), vis |-> v.vis, origin |-> origin])])

convert_field(c, struct_generics, v, origin) ==
    Let([tt \in {to_ty(c, v.ty, 0)} |->
    IF ~ok(tt.tcx) THEN R(tt.tcx, bad_field) ELSE
    R(tcache_insert(write_ty_to_tcx(tt.tcx, v.id, tt.v), local_def(v.id),
                    [generics |-> struct_generics, ty |-> tt.v]),
      [name |-> IF v.kind = "NamedField" THEN v.name ELSE unnamed_field,
       id |-> local_def(v.id), vis |-> v.vis, origin |-> origin])])

\* format!("field `{}` is already declared", name), without the quotes
field_declared_msg(name) == "field " \o name \o " is already declared"

\* the duplicate check of the closure: an error when the name was seen before
field_seen_check(c, field, name, seen_fields) ==
    IF name /= unnamed_field /\ name \in seen_fields
    THEN span_err(c, field.id, field_declared_msg(name))
    ELSE c

\* variant: a field whose name was seen before is reported and then dropped
RECURSIVE convert_fields_from(_, _, _, _, _, _)
convert_fields_from_first_wins(c, tpt, fields, id, i, seen_fields) ==
    IF i > Len(fields) \/ ~ok(c) THEN R(c, <<>>) ELSE
    Let([result \in {convert_field(c, tpt.generics, fields[i], local_def(id))} |->
    IF ~ok(result.tcx) THEN R(result.tcx, <<>>) ELSE
    Let([rest \in {convert_fields_from(
                      field_seen_check(result.tcx, fields[i], result.v.name, seen_fields),
                      tpt, fields, id, i + 1,
                      IF result.v.name /= unnamed_field
                      THEN seen_fields \cup {result.v.name} ELSE seen_fields)} |->
    R(rest.tcx,
      (IF result.v.name /= unnamed_field /\ result.v.name \in seen_fields
       THEN <<>> ELSE <<result.v>>) \o rest.v)])])

\* the closure convert_struct maps over the fields, from the i-th field on;
\* seen_fields holds the names met so far
convert_fields_from(c, tpt, fields, id, i, seen_fields) ==
    IF i > Len(fields) \/ ~ok(c) THEN R(c, <<>>) ELSE
    Let([result \in {convert_field(c, tpt.generics, fields[i], local_def(id))} |->
    IF ~ok(result.tcx) THEN R(result.tcx, <<>>) ELSE
    Let([rest \in {convert_fields_from(
                      field_seen_check(result.tcx, fields[i], result.v.name, seen_fields),
                      tpt, fields, id, i + 1,
                      IF result.v.name /= unnamed_field
                      THEN seen_fields \cup {result.v.name} ELSE seen_fields)} |->
    R(rest.tcx, <<result.v>> \o rest.v)])])

not_virtual_msg == "struct inheritance is only allowed from virtual structs"

\* variant: a parent that is not virtual is reported and then not recorded
convert_super_struct_strict(c, struct_def) ==
    IF ~is_some(struct_def.super_struct) THEN R(c, None)
    ELSE IF ~is_item(unwrap(struct_def.super_struct).id) THEN R(c, None)
    ELSE IF krate[unwrap(struct_def.super_struct).id].node /= "ItemStruct" THEN R(c, None)
    ELSE IF ~krate[unwrap(struct_def.super_struct).id].struct_def.is_virtual
    THEN R(span_err(c, unwrap(struct_def.super_struct).id, not_virtual_msg), None)
    ELSE R(c, Some(local_def(unwrap(struct_def.super_struct).id)))

\* the super_struct match of convert_struct: the parent's id, and an error
\* when the parent is a struct that is not virtual
convert_super_struct(c, struct_def) ==
    IF ~is_some(struct_def.super_struct) THEN R(c, None)
    ELSE IF unwrap(struct_def.super_struct).t /= "TyPath" THEN R(c, None)
    ELSE IF ~is_item(unwrap(struct_def.super_struct).id) THEN R(c, None)
    ELSE IF krate[unwrap(struct_def.super_struct).id].node /= "ItemStruct" THEN R(c, None)
    ELSE R(IF ~krate[unwrap(struct_def.super_struct).id].struct_def.is_virtual
           THEN span_err(c, unwrap(struct_def.super_struct).id, not_virtual_msg)
           ELSE c,
           Some(local_def(unwrap(struct_def.super_struct).id)))

\* the constructor of an enum-like or tuple-like struct
convert_struct_ctor(c, struct_def, tpt, id) ==
    LET selfty == mk_struct(local_def(id), mk_item_substs(tpt.generics, None))
    IN IF ~ok(c) \/ ~is_some(struct_def.ctor_id) THEN c
       ELSE IF Len(struct_def.fields) = 0
       THEN tcache_insert(write_ty_to_tcx(c, unwrap(struct_def.ctor_id), selfty),
                          local_def(unwrap(struct_def.ctor_id)), tpt)
       ELSE IF struct_def.fields[1].kind = "UnnamedField"
       THEN LET ctor_fn_ty ==
                    mk_ctor_fn([i \in DOMAIN struct_def.fields |->
                                   c.tcache[local_def(struct_def.fields[i].id)].ty],
                               selfty)
            IN tcache_insert(write_ty_to_tcx(c, unwrap(struct_def.ctor_id), ctor_fn_ty),
                             local_def(unwrap(struct_def.ctor_id)),
                             [generics |-> tpt.generics, ty |-> ctor_fn_ty])
       ELSE c

\* the end of convert_struct: the superstruct is recorded, then the constructor
convert_struct_super(super_struct, struct_def, tpt, id) ==
    convert_struct_ctor(
        table_insert(super_struct.tcx, "superstructs", local_def(id), super_struct.v),
        struct_def, tpt, id)

convert_struct(c, struct_def, tpt, id) ==
    Let([field_tys \in {convert_fields_from(c, tpt, struct_def.fields, id, 1, {})} |->
    IF ~ok(field_tys.tcx) THEN field_tys.tcx ELSE
    convert_struct_super(
        convert_super_struct(
            table_insert(field_tys.tcx, "struct_fields", local_def(id), field_tys.v),
            struct_def),
        struct_def, tpt, id)])

\* variant: every variant, whatever its payload, is given the enum type itself
variant_result_ty_nullary(c, enum_ty, variant, generics) == R(c, enum_ty)

\* the type of one variant in get_enum_variant_types
variant_result_ty(c, enum_ty, variant, generics) ==
    CASE variant.kind = "TupleVariantKind" /\ Len(variant.args) > 0 ->
            Let([input_tys \in {to_tys(c, variant.args, 0)} |->
            R(input_tys.tcx, mk_ctor_fn(input_tys.v, enum_ty))])
      [] variant.kind = "TupleVariantKind" -> R(c, enum_ty)
      [] variant.kind = "StructVariantKind" ->
            Let([g \in {ty_generics_for_type(c, generics, 0)} |->
            IF ~ok(g.tcx) THEN R(g.tcx, mk_err) ELSE
            Let([c1 \in {convert_struct(g.tcx, variant.struct_def,
                                        [generics |-> g.v, ty |-> enum_ty],
                                        variant.id)} |->
            IF ~ok(c1) THEN R(c1, mk_err) ELSE
            R(c1, mk_ctor_fn([i \in DOMAIN variant.struct_def.fields |->
                                 c1.node_types[variant.struct_def.fields[i].id]],
                             enum_ty))])])

\* the body of the loop of get_enum_variant_types for one variant
enum_variant_type(c, enum_ty, variant, generics) ==
    Let([result_ty \in {variant_result_ty(c, enum_ty, variant, generics)} |->
    IF ~ok(result_ty.tcx) THEN result_ty.tcx ELSE
    Let([g \in {ty_generics_for_type(result_ty.tcx, generics, 0)} |->
    IF ~ok(g.tcx) THEN g.tcx ELSE
    write_ty_to_tcx(tcache_insert(g.tcx, local_def(variant.id),
                                  [generics |-> g.v, ty |-> result_ty.v]),
                    variant.id, result_ty.v)])])

RECURSIVE get_enum_variant_types_from(_, _, _, _, _)
get_enum_variant_types_from(c, enum_ty, variants, generics, i) ==
    IF i > Len(variants) \/ ~ok(c) THEN c ELSE
    get_enum_variant_types_from(enum_variant_type(c, enum_ty, variants[i], generics),
                                enum_ty, variants, generics, i + 1)

get_enum_variant_types(c, enum_ty, variants, generics) ==
    get_enum_variant_types_from(c, enum_ty, variants, generics, 1)

(***************************************************************************)
(* convert: the visitor's work on one item.                                *)
(***************************************************************************)
\* format!("trait bounds are not allowed in {} definitions", thing)
no_bounds_msg(thing) == "trait bounds are not allowed in " \o thing \o " definitions"

RECURSIVE ensure_no_ty_param_bounds_from(_, _, _, _, _)
ensure_no_ty_param_bounds_from(c, span, generics, thing, i) ==
    IF i > Len(generics.ty_params) THEN c
    ELSE ensure_no_ty_param_bounds_from(
            IF Len(generics.ty_params[i].bounds) > 0
            THEN span_err(c, span, no_bounds_msg(thing))
            ELSE c,
            span, generics, thing, i + 1)

\* variant: no item is checked for bounds on its type parameters
ensure_no_ty_param_bounds_off(c, span, generics, thing) == c

ensure_no_ty_param_bounds(c, span, generics, thing) ==
    ensure_no_ty_param_bounds_from(c, span, generics, thing, 1)

ensure_generics_abi(c, span, abi, generics) ==
    IF Len(generics.ty_params) > 0 /\ ~(abi \in {"Rust", "RustIntrinsic"})
    THEN span_err(c, span, "foreign functions may not use type parameters")
    ELSE c

provided_methods(trait_methods) == SelectSeq(trait_methods, LAMBDA m : m.m = "Provided")

convert_enum(c, it) ==
    Let([tpt \in {ty_of_item(ensure_no_ty_param_bounds(c, it.id, it.generics,
                                                       "enumeration"),
                             it, 0)} |->
    IF ~ok(tpt.tcx) THEN tpt.tcx ELSE
    get_enum_variant_types(write_ty_to_tcx(tpt.tcx, it.id, tpt.v.ty),
                           tpt.v.ty, it.variants, it.generics)])

\* the end of the ItemImpl arm: the trait reference of the impl
convert_impl_trait_ref(c, it, selfty) ==
    IF ~ok(c) \/ ~is_some(it.opt_trait_ref) THEN c ELSE
    Let([trait_ref \in {instantiate_trait_ref(c, unwrap(it.opt_trait_ref), selfty, 0)} |->
    IF ~ok(trait_ref.tcx) THEN trait_ref.tcx
    ELSE IF is_some(to_builtin_kind(trait_ref.v.def_id))
    THEN span_err(trait_ref.tcx, it.id,
                  "cannot provide an explicit implementation for a builtin kind")
    ELSE trait_ref.tcx])

convert_impl(c, it) ==
    Let([impl_ty_generics \in {ty_generics_for_type(c, it.generics, 0)} |->
    IF ~ok(impl_ty_generics.tcx) THEN impl_ty_generics.tcx ELSE
    Let([selfty \in {to_ty(impl_ty_generics.tcx, it.selfty, 0)} |->
    IF ~ok(selfty.tcx) THEN selfty.tcx ELSE
    convert_impl_trait_ref(
        convert_methods(
            tcache_insert(write_ty_to_tcx(selfty.tcx, it.id, selfty.v),
                          local_def(it.id),
                          [generics |-> impl_ty_generics.v, ty |-> selfty.v]),
            [c |-> "ImplContainer", id |-> local_def(it.id)],
            it.methods, selfty.v, impl_ty_generics.v, it.generics,
            IF is_some(it.opt_trait_ref) THEN "Public" ELSE it.vis),
        it, selfty.v)])])

\* variant: the methods of the trait are ensured before convert_methods runs
convert_trait_methods_last(c, it) ==
    Let([trait_def \in {trait_def_of_item(c, it, 0)} |->
    IF ~ok(trait_def.tcx) THEN trait_def.tcx ELSE
    convert_methods(ensure_trait_methods(trait_def.tcx, it.id),
                    [c |-> "TraitContainer", id |-> local_def(it.id)],
                    provided_methods(it.methods), mk_self(local_def(it.id)),
                    trait_def.v.generics, it.generics, it.vis)])

convert_trait(c, it) ==
    Let([trait_def \in {trait_def_of_item(c, it, 0)} |->
    IF ~ok(trait_def.tcx) THEN trait_def.tcx ELSE
    ensure_trait_methods(
        convert_methods(trait_def.tcx,
                        [c |-> "TraitContainer", id |-> local_def(it.id)],
                        provided_methods(it.methods), mk_self(local_def(it.id)),
                        trait_def.v.generics, it.generics, it.vis),
        it.id)])

\* the node type of a struct item: its own type, then its superstruct's
write_struct_node_type(c, it, tpt) ==
    IF ~is_some(it.struct_def.super_struct)
    THEN tcache_insert(write_ty_to_tcx(c, it.id, tpt.ty), local_def(it.id), tpt)
    ELSE Let([supserty \in
                {to_ty(tcache_insert(write_ty_to_tcx(c, it.id, tpt.ty),
                                     local_def(it.id), tpt),
                       unwrap(it.struct_def.super_struct), 0)} |->
         IF ~ok(supserty.tcx) THEN supserty.tcx ELSE
         write_ty_to_tcx(supserty.tcx, it.id, supserty.v)])

convert_item_struct(c, it) ==
    Let([tpt \in {ty_of_item(ensure_no_ty_param_bounds(c, it.id, it.generics,
                                                       "structure"),
                             it, 0)} |->
    IF ~ok(tpt.tcx) THEN tpt.tcx ELSE
    convert_struct(write_struct_node_type(tpt.tcx, it, tpt.v),
                   it.struct_def, tpt.v, it.id)])

\* the arms of convert that only write the item's type into the node type table
convert_simple(c, it) ==
    Let([tpt \in {ty_of_item(c, it, 0)} |->
    IF ~ok(tpt.tcx) THEN tpt.tcx ELSE write_ty_to_tcx(tpt.tcx, it.id, tpt.v.ty)])

convert(c, it) ==
    CASE it.node = "ItemMod" -> c
      [] it.node = "ItemEnum" -> convert_enum(c, it)
      [] it.node = "ItemImpl" -> convert_impl(c, it)
      [] it.node = "ItemTrait" -> convert_trait(c, it)
      [] it.node = "ItemStruct" -> convert_item_struct(c, it)
      [] it.node = "ItemTy" ->
            convert_simple(ensure_no_ty_param_bounds(c, it.id, it.generics, "type"), it)
      [] it.node = "ItemFn" ->
            convert_simple(ensure_generics_abi(c, it.id, it.abi, it.generics), it)
      [] OTHER -> convert_simple(c, it)

convert_foreign(c, i) ==
    Let([tpt \in {ty_of_foreign_item(c, i, 0)} |->
    IF ~ok(tpt.tcx) THEN tpt.tcx ELSE
    tcache_insert(write_ty_to_tcx(tpt.tcx, i.id, tpt.v.ty), local_def(i.id), tpt.v)])

(***************************************************************************)
(* The crates the pass is run on.  Node ids: an item has a one-digit id n, *)
(* its type parameters have ids 10n+1.., its lifetimes 10n+6.., its        *)
(* methods, fields and variants 100n+1.., and their parameters and fields  *)
(* ten times that plus 1...                                                *)
(***************************************************************************)
ParamNames == <<"A", "B", "C", "D">>
LifetimeNames == <<"'a", "'b">>

TyInt == [t |-> "TyInt"]
TyParam(idx, id) == [t |-> "TyParam", idx |-> idx, id |-> id]
TySelf(id) == [t |-> "TySelf", id |-> id]
TyPath(id, args) == [t |-> "TyPath", id |-> id, args |-> args]

TraitRefTo(def_id) == [def |-> [d |-> "DefTrait", id |-> def_id], args |-> <<>>]
TraitBound(def_id) == [b |-> "TraitTyParamBound", tref |-> TraitRefTo(def_id)]

\* n type parameters with the given bounds, and the given lifetimes, owned by node
AstGenerics(owner, n, bounds, lifetimes) ==
    [ty_params |-> [i \in 1..n |->
                        [id |-> 10 * owner + i, ident |-> ParamNames[i],
                         bounds |-> bounds, default |-> None]],
     lifetimes |-> [i \in DOMAIN lifetimes |->
                        [id |-> 10 * owner + 5 + i, name |-> LifetimeNames[i],
                         early |-> lifetimes[i]]]]

\* the types of the parameters of AstGenerics(owner, n, ..) built from base on
ParamTys(owner, n, base) == [i \in 1..n |-> TyParam(base + i - 1, 10 * owner + i)]

EmptyTrait(id) ==
    [node |-> "ItemTrait", id |-> id, vis |-> "Inherited",
     generics |-> AstGenerics(id, 0, <<>>, <<>>), supertraits |-> <<>>, methods |-> <<>>]

\* a trait method: its own m parameters come after the k parameters of the trait
TraitMethod(kind, id, ident, explicit_self, trait, k, m, bounds) ==
    [m |-> kind, id |-> id, ident |-> ident, explicit_self |-> explicit_self,
     vis |-> "Inherited",
     generics |-> AstGenerics(id, m, bounds, <<TRUE, FALSE>>),
     decl |-> [inputs |-> ParamTys(trait, k, 0) \o ParamTys(id, m, k),
               output |-> TySelf(trait)]]

\* trait U {}  trait V {}
\* trait T<'a, A: U, ..> : sup {
\*     fn ps<'a, 'b, A: U, ..>(..) -> Self { }      fn rs<..>(..) -> Self;
\*     fn pn<..>(self, ..) -> Self { }              fn rn<..>(self, ..) -> Self;
\* }
TraitCrate(k, m, sup) ==
    (1 :> EmptyTrait(1)) @@ (2 :> EmptyTrait(2)) @@
    (3 :> [node |-> "ItemTrait", id |-> 3, vis |-> "Public",
           generics |-> AstGenerics(3, k, <<TraitBound(local_def(1))>>, <<TRUE>>),
           supertraits |-> sup,
           methods |-> <<TraitMethod("Provided", 301, "ps", "SelfStatic", 3, k, m,
                                     <<TraitBound(local_def(1))>>),
                         TraitMethod("Required", 302, "rs", "SelfStatic", 3, k, m,
                                     <<TraitBound(local_def(2))>>),
                         TraitMethod("Provided", 303, "pn", "SelfValue", 3, k, m,
                                     <<TraitBound(local_def(1))>>),
                         TraitMethod("Required", 304, "rn", "SelfValue", 3, k, m,
                                     <<>>)>>])

SupertraitLists ==
    LET U == TraitRefTo(local_def(1))
        V == TraitRefTo(local_def(2))
        Send == TraitRefTo(send_defid)
    IN {<<>>, <<U, V>>, <<U, U>>, <<Send, U, V, U, V, Send>>}

TraitCrates ==
    {TraitCrate(k, m, sup) : k \in 0..MaxItemParams, m \in 0..MaxMethodParams,
                             sup \in SupertraitLists}

BoundsOn(bounded) == IF bounded THEN <<TraitBound(local_def(1))>> ELSE <<>>

NamedField(name, id, ty) ==
    [kind |-> "NamedField", name |-> name, id |-> id, vis |-> "Inherited", ty |-> ty]
UnnamedField(id, ty) ==
    [kind |-> "UnnamedField", name |-> "", id |-> id, vis |-> "Inherited", ty |-> ty]

StructDef(fields, ctor_id, super_struct, is_virtual) ==
    [fields |-> fields, ctor_id |-> ctor_id, super_struct |-> super_struct,
     is_virtual |-> is_virtual]

\* the first parameter of the owner's list if there is one, else int
FirstParamOrInt(owner, k) == IF k > 0 THEN TyParam(0, 10 * owner + 1) ELSE TyInt

\* trait U {}
\* [virtual] struct P { p: int }
\* struct S<A: U, ..> [: P] { x: A, y: int, x: P }       (or z: P)
\* enum E<A: U, ..> { V1(int, S<A, ..>), V2, V3 { f: int, f: A } }    (or g: A)
\* struct W<A: U, ..>(int, A);                  (struct W; without parameters)
NominalCrate(k, bounded, sup, dup) ==
    (1 :> EmptyTrait(1)) @@
    (2 :> [node |-> "ItemStruct", id |-> 2, vis |-> "Public",
           generics |-> AstGenerics(2, 0, <<>>, <<>>),
           struct_def |-> StructDef(<<NamedField("p", 201, TyInt)>>, None, None,
                                    sup = "virtual")]) @@
    (3 :> [node |-> "ItemStruct", id |-> 3, vis |-> "Public",
           generics |-> AstGenerics(3, k, BoundsOn(bounded), <<>>),
           struct_def |->
               StructDef(<<NamedField("x", 301, FirstParamOrInt(3, k)),
                           NamedField("y", 302, TyInt),
                           NamedField(IF dup THEN "x" ELSE "z", 303, TyPath(2, <<>>))>>,
                         None,
                         IF sup = "none" THEN None ELSE Some(TyPath(2, <<>>)),
                         FALSE)]) @@
    (4 :> [node |-> "ItemEnum", id |-> 4, vis |-> "Public",
           generics |-> AstGenerics(4, k, BoundsOn(bounded), <<>>),
           variants |->
               <<[kind |-> "TupleVariantKind", id |-> 401,
                  args |-> <<TyInt, TyPath(3, ParamTys(4, k, 0))>>],
                 [kind |-> "TupleVariantKind", id |-> 402, args |-> <<>>],
                 [kind |-> "StructVariantKind", id |-> 403,
                  struct_def |->
                      StructDef(<<NamedField("f", 4031, TyInt),
                                  NamedField(IF dup THEN "f" ELSE "g", 4032,
                                             FirstParamOrInt(4, k))>>,
                                None, None, FALSE)]>>]) @@
    (5 :> [node |-> "ItemStruct", id |-> 5, vis |-> "Public",
           generics |-> AstGenerics(5, k, BoundsOn(bounded), <<TRUE, FALSE>>),
           struct_def |->
               StructDef(IF k = 0 THEN <<>>
                         ELSE <<UnnamedField(501, TyInt),
                                UnnamedField(502, TyParam(0, 51))>>,
                         Some(509), None, FALSE)])

NominalCrates ==
    {NominalCrate(k, v[1], v[2], v[3]) :
        k \in 0..MaxItemParams,
        v \in {<<FALSE, "none", FALSE>>, <<TRUE, "virtual", TRUE>>,
               <<FALSE, "plain", TRUE>>}}

\* trait U {}
\* extern "abi" fn f<'a, A: U, ..>(x: A, .., t: T<A, ..>) -> int { }
\* type T<A: U, ..> = A;                                  (= int without parameters)
\* static X: T<int, ..> = ..;
FnCrate(k, bounded, abi) ==
    (1 :> EmptyTrait(1)) @@
    (2 :> [node |-> "ItemFn", id |-> 2, vis |-> "Public", abi |-> abi,
           generics |-> AstGenerics(2, k, BoundsOn(bounded), <<TRUE, FALSE>>),
           decl |-> [inputs |-> ParamTys(2, k, 0) \o <<TyPath(3, ParamTys(2, k, 0))>>,
                     output |-> TyInt]]) @@
    (3 :> [node |-> "ItemTy", id |-> 3, vis |-> "Public",
           generics |-> AstGenerics(3, k, BoundsOn(bounded), <<>>),
           ty |-> FirstParamOrInt(3, k)]) @@
    (4 :> [node |-> "ItemStatic", id |-> 4, vis |-> "Public",
           ty |-> TyPath(3, [i \in 1..k |-> TyInt])])

FnCrates ==
    {FnCrate(k, v[1], v[2]) :
        k \in 0..MaxItemParams,
        v \in {<<FALSE, "Rust">>, <<TRUE, "Rust">>, <<TRUE, "C">>}}

\* trait U {}
\* extern { fn g<A: U, ..>(x: A, .., pat: int) -> int;   static Y: int; }
\* mod m {}
ForeignCrate(k, bounded, pat) ==
    (1 :> EmptyTrait(1)) @@
    (2 :> [node |-> "ForeignItemFn", id |-> 2, vis |-> "Public",
           generics |-> AstGenerics(2, k, BoundsOn(bounded), <<TRUE>>),
           decl |-> [inputs |-> ParamTys(2, k, 0) \o <<TyInt>>,
                     pats |-> [i \in 1..k |-> [pat |-> "PatIdent", id |-> 200 + i]]
                              \o <<[pat |-> pat, id |-> 209]>>,
                     output |-> TyInt]]) @@
    (3 :> [node |-> "ForeignItemStatic", id |-> 3, vis |-> "Public", ty |-> TyInt]) @@
    (4 :> [node |-> "ItemMod", id |-> 4, vis |-> "Public"])

ForeignCrates ==
    {ForeignCrate(k, v[1], v[2]) :
        k \in 0..MaxItemParams,
        v \in {<<FALSE, "PatIdent">>, <<TRUE, "PatTup">>}}

\* a method of an impl: its own m parameters come after the k parameters of the impl
ImplMethod(id, ident, explicit_self, vis, owner, k, m) ==
    [id |-> id, ident |-> ident, explicit_self |-> explicit_self, vis |-> vis,
     generics |-> AstGenerics(id, m, BoundsOn(TRUE), <<TRUE, FALSE>>),
     decl |-> [inputs |-> ParamTys(owner, k, 0) \o ParamTys(id, m, k),
               output |-> TyInt]]

\* trait U {}
\* struct S<A: U, ..>;
\* impl<'a, A: U, ..> [U for | Send for] S<A, ..> {
\*     fn f<B: U, ..>(self, ..) -> int { }     pub fn g<B: U, ..>(..) -> int { }
\*     fn f<B: U, ..>(self, ..) -> int { }
\* }
ImplCrate(k, m, tr) ==
    (1 :> EmptyTrait(1)) @@
    (2 :> [node |-> "ItemStruct", id |-> 2, vis |-> "Public",
           generics |-> AstGenerics(2, k, BoundsOn(TRUE), <<>>),
           struct_def |-> StructDef(<<>>, Some(209), None, FALSE)]) @@
    (3 :> [node |-> "ItemImpl", id |-> 3, vis |-> "Inherited",
           generics |-> AstGenerics(3, k, BoundsOn(TRUE), <<TRUE>>),
           opt_trait_ref |-> tr,
           selfty |-> TyPath(2, ParamTys(3, k, 0)),
           methods |-> <<ImplMethod(301, "f", "SelfValue", "Inherited", 3, k, m),
                         ImplMethod(302, "g", "SelfStatic", "Public", 3, k, m),
                         ImplMethod(303, "f", "SelfValue", "Inherited", 3, k, m)>>])

ImplCrates ==
    {ImplCrate(k, m, None) : k \in 0..MaxItemParams, m \in 0..MaxMethodParams}
    \cup {ImplCrate(1, 1, Some(TraitRefTo(local_def(1)))),
          ImplCrate(1, 1, Some(TraitRefTo(send_defid)))}

\* struct S { a: int }          enum E { V(S), W }       type T = S;
\* static X: T = ..;            fn f(x: E) -> int { }
\* impl S { fn m(self) -> int { } }
\* extern { fn g(x: int) -> int; }
MixedCrate ==
    (1 :> [node |-> "ItemStruct", id |-> 1, vis |-> "Public",
           generics |-> AstGenerics(1, 0, <<>>, <<>>),
           struct_def |-> StructDef(<<NamedField("a", 101, TyInt)>>, None, None, FALSE)]) @@
    (2 :> [node |-> "ItemEnum", id |-> 2, vis |-> "Public",
           generics |-> AstGenerics(2, 0, <<>>, <<>>),
           variants |->
               <<[kind |-> "TupleVariantKind", id |-> 201, args |-> <<TyPath(1, <<>>)>>],
                 [kind |-> "TupleVariantKind", id |-> 202, args |-> <<>>]>>]) @@
    (3 :> [node |-> "ItemTy", id |-> 3, vis |-> "Public",
           generics |-> AstGenerics(3, 0, <<>>, <<>>), ty |-> TyPath(1, <<>>)]) @@
    (4 :> [node |-> "ItemStatic", id |-> 4, vis |-> "Public", ty |-> TyPath(3, <<>>)]) @@
    (5 :> [node |-> "ItemFn", id |-> 5, vis |-> "Public", abi |-> "Rust",
           generics |-> AstGenerics(5, 0, <<>>, <<>>),
           decl |-> [inputs |-> <<TyPath(2, <<>>)>>, output |-> TyInt]]) @@
    (6 :> [node |-> "ItemImpl", id |-> 6, vis |-> "Public",
           generics |-> AstGenerics(6, 0, <<>>, <<>>),
           opt_trait_ref |-> None,
           selfty |-> TyPath(1, <<>>),
           methods |-> <<ImplMethod(601, "m", "SelfValue", "Inherited", 6, 0, 0)>>]) @@
    (7 :> [node |-> "ForeignItemFn", id |-> 7, vis |-> "Public",
           generics |-> AstGenerics(7, 0, <<>>, <<>>),
           decl |-> [inputs |-> <<TyInt>>, pats |-> <<[pat |-> "PatIdent", id |-> 701]>>,
                     output |-> TyInt]])

\* generics whose p-th type parameter has the default ty
WithDefault(generics, p, ty) ==
    [generics EXCEPT !.ty_params = [@ EXCEPT ![p] = [@ EXCEPT !.default = Some(ty)]]]

\* struct D<A, B = ty>;  or  struct D<A = ty, B>;      type T = D<int, int>;
DefaultCrate(p, ty) ==
    (1 :> [node |-> "ItemStruct", id |-> 1, vis |-> "Public",
           generics |-> WithDefault(AstGenerics(1, 2, <<>>, <<>>), p, ty),
           struct_def |-> StructDef(<<>>, Some(109), None, FALSE)]) @@
    (2 :> [node |-> "ItemTy", id |-> 2, vis |-> "Public",
           generics |-> AstGenerics(2, 0, <<>>, <<>>),
           ty |-> TyPath(1, <<TyInt, TyInt>>)])

\* the defaults are int, A and B
DefaultCrates ==
    {DefaultCrate(p, ty) :
        p \in 1..2,
        ty \in {TyInt} \cup Range(ParamTys(1, 2, 0))}

\* trait U {}
\* trait T { fn f(self) -> Self [{ }]      fn f(self) -> Self [{ }] }
DupTraitCrate(first, second) ==
    (1 :> EmptyTrait(1)) @@
    (2 :> [node |-> "ItemTrait", id |-> 2, vis |-> "Public",
           generics |-> AstGenerics(2, 0, <<>>, <<>>),
           supertraits |-> <<>>,
           methods |-> <<TraitMethod(first, 201, "f", "SelfValue", 2, 0, 0, <<>>),
                         TraitMethod(second, 202, "f", "SelfValue", 2, 0, 0, <<>>)>>])

DupTraitCrates ==
    {DupTraitCrate(first, second) : first, second \in {"Provided", "Required"}}

\* trait A: B<int> {}      trait B<T: A> {}
CyclicBoundCrate ==
    (1 :> [EmptyTrait(1) EXCEPT
             !.supertraits = <<[TraitRefTo(local_def(2)) EXCEPT !.args = <<TyInt>>]>>]) @@
    (2 :> [EmptyTrait(2) EXCEPT
             !.generics = AstGenerics(2, 1, <<TraitBound(local_def(1))>>, <<>>)])

\* trait A: B {}      trait B: A {}
CyclicTraitCrate ==
    (1 :> [EmptyTrait(1) EXCEPT !.supertraits = <<TraitRefTo(local_def(2))>>]) @@
    (2 :> [EmptyTrait(2) EXCEPT !.supertraits = <<TraitRefTo(local_def(1))>>])

\* trait U {}  trait V {}  trait T: U + U + V + Send { .. }
StopCrate ==
    TraitCrate(0, 0, <<TraitRefTo(local_def(1)), TraitRefTo(local_def(1)),
                       TraitRefTo(local_def(2)), TraitRefTo(send_defid)>>)

Crates ==
    {CyclicTraitCrate, CyclicBoundCrate, StopCrate} \cup DupTraitCrates \cup
    TraitCrates \cup NominalCrates \cup FnCrates \cup ForeignCrates \cup ImplCrates
        \cup {MixedCrate} \cup DefaultCrates

(***************************************************************************)
(* CVec (src/libextra/c_vec.rs).  The buffer is foreign memory: a cell     *)
(* fresh from malloc holds no value yet (None), and reading it yields any  *)
(* value.  A failed assert! ends the task; unwinding drops the CVec,       *)
(* which runs its destructor.                                              *)
(***************************************************************************)
Vals == 0..MaxVal

\* `ofs as int`: the same bits read as a signed number
as_int(x) == IF x >= 2^(UintBits - 1) THEN x - 2^UintBits ELSE x

\* ptr::mut_offset: the address count elements on, in pointer arithmetic
mut_offset(ptr, count) == (ptr + count) % 2^UintBits

no_cvec == [base |-> 0, len |-> 0, dtor |-> FALSE, task |-> "none"]
no_call == [op |-> "none", ofs |-> 0, v |-> 0, ret |-> None, touched |-> {}]

\* the result of a call: the CVec and the buffer after it, what it returned, the
\* cells it read or wrote
CallResult(self, m, ret, touched) == [cvec |-> self, mem |-> m, ret |-> ret, touched |-> touched]

\* Drop for DtorRes: the destructor given to new_with_dtor frees the buffer
drop(self, m) == IF self.dtor THEN <<>> ELSE m

\* a failed assert!: the task unwinds and its CVec is dropped
fail_assert(self, m) ==
    CallResult([self EXCEPT !.task = "failed"], drop(self, m), None, {})

\* CVec::new and CVec::new_with_dtor
new(base, len, dtor) == [base |-> base, len |-> len, dtor |-> dtor, task |-> "running"]

\* libc::malloc(n): n cells that hold no value yet
malloc(base, n) == [a \in {mut_offset(base, i) : i \in 0..(n - 1)} |-> None]

\* *p = v in foreign memory
store(m, p, v) == IF p \in DOMAIN m THEN [m EXCEPT ![p] = Some(v)] ELSE m

\* variant: set without its assert!
set_unchecked(self, m, ofs, v) ==
    CallResult(self, store(m, mut_offset(self.base, as_int(ofs)), v), None,
               {mut_offset(self.base, as_int(ofs))})

set(self, m, ofs, v) ==
    IF ~(ofs < self.len) THEN fail_assert(self, m)
    ELSE CallResult(self, store(m, mut_offset(self.base, as_int(ofs)), v), None,
                    {mut_offset(self.base, as_int(ofs))})

\* the values (*p).clone() can yield: the cell's value, or any value when the cell
\* was never written or is not part of the buffer
load(m, p) == IF p \in DOMAIN m /\ is_some(m[p]) THEN {unwrap(m[p])} ELSE Vals

\* get, for one of the values the read can yield
get(self, m, ofs, x) ==
    IF ~(ofs < self.len) THEN fail_assert(self, m)
    ELSE CallResult(self, m, Some(x), {mut_offset(self.base, as_int(ofs))})

len(self) == self.len

(***************************************************************************)
(* A task that owns one CVec over a fresh buffer and calls its methods.    *)
(***************************************************************************)
CVecInit ==
    /\ krate = <<>> /\ tcx = new_tcx /\ visited = {} /\ demands = 0
    /\ \E base \in 1..2, n \in 0..MaxLen, dtor \in BOOLEAN :
          /\ cvec = new(base, n, dtor)
          /\ mem = malloc(base, n)
    /\ last = no_call

Running == cvec.task = "running"

Called(op, ofs, v, r) ==
    /\ cvec' = r.cvec
    /\ mem' = r.mem
    /\ last' = [op |-> op, ofs |-> ofs, v |-> v, ret |-> r.ret, touched |-> r.touched]
    /\ UNCHANGED <<krate, tcx, visited, demands>>

Set(ofs, v) == Running /\ Called("set", ofs, v, set(cvec, mem, ofs, v))

Get(ofs) ==
    /\ Running
    /\ \E x \in load(mem, mut_offset(cvec.base, as_int(ofs))) :
          Called("get", ofs, 0, get(cvec, mem, ofs, x))

LenCall == Running /\ Called("len", 0, 0, CallResult(cvec, mem, Some(len(cvec)), {}))

\* the CVec goes out of scope
Drop ==
    /\ Running
    /\ Called("drop", 0, 0, CallResult([cvec EXCEPT !.task = "done"], drop(cvec, mem), None, {}))

CVecNext ==
    \/ \E ofs \in 0..(MaxLen + 1), v \in Vals : Set(ofs, v)
    \/ \E ofs \in 0..(MaxLen + 1) : Get(ofs)
    \/ LenCall
    \/ Drop

CVecSpec == CVecInit /\ [][CVecNext]_vars

(***************************************************************************)
(* The pass: the visitor converts every item once, in the order of the     *)
(* crate; other phases demand types and trait definitions in between.      *)
(***************************************************************************)
Init ==
    /\ krate \in Crates
    /\ tcx = new_tcx
    /\ visited = {}
    /\ demands = 0
    /\ cvec = no_cvec /\ mem = <<>> /\ last = no_call

\* CollectItemTypesVisitor::visit_item
Convert(n) ==
    /\ ok(tcx) /\ is_item(n) /\ n \notin visited
    /\ tcx' = convert(tcx, krate[n])
    /\ visited' = visited \cup {n}
    /\ UNCHANGED <<krate, demands>>
    /\ UNCHANGED cvec_vars

\* CollectItemTypesVisitor::visit_foreign_item
ConvertForeign(n) ==
    /\ ok(tcx) /\ is_foreign_item(n) /\ n \notin visited
    /\ tcx' = convert_foreign(tcx, krate[n])
    /\ visited' = visited \cup {n}
    /\ UNCHANGED <<krate, demands>>
    /\ UNCHANGED cvec_vars

\* AstConv::get_item_ty, called by another phase
GetItemTy(n) ==
    /\ ok(tcx) /\ demands < MaxDemands
    /\ tcx' = get_item_ty(tcx, local_def(n), 0).tcx
    /\ demands' = demands + 1
    /\ UNCHANGED <<krate, visited>>
    /\ UNCHANGED cvec_vars

\* AstConv::get_trait_def, called by another phase
GetTraitDef(n) ==
    /\ ok(tcx) /\ demands < MaxDemands
    /\ tcx' = get_trait_def(tcx, local_def(n), 0).tcx
    /\ demands' = demands + 1
    /\ UNCHANGED <<krate, visited>>
    /\ UNCHANGED cvec_vars

\* ensure_trait_methods, called by another phase
EnsureTraitMethods(n) ==
    /\ ok(tcx) /\ demands < MaxDemands
    /\ tcx' = ensure_trait_methods(tcx, n)
    /\ demands' = demands + 1
    /\ UNCHANGED <<krate, visited>>
    /\ UNCHANGED cvec_vars

Next ==
    \E n \in DOMAIN krate :
        \/ Convert(n)
        \/ ConvertForeign(n)
        \/ GetItemTy(n)
        \/ GetTraitDef(n)
        \/ EnsureTraitMethods(n)

Spec == Init /\ [][Next]_vars

(***************************************************************************)
(* Properties.                                                             *)
(***************************************************************************)
Items(kind) == {n \in DOMAIN krate : krate[n].node = kind}

\* the ids of the provided static methods of the crate's traits
ProvidedStaticMethodIds ==
    {local_def(m.id) : m \in
        UNION {{x \in Range(krate[n].methods) :
                    x.m = "Provided" /\ x.explicit_self = "SelfStatic"} :
               n \in Items("ItemTrait")}}

\* C1, as stated: once tcache holds a scheme for an id, no later insert stores a
\* different scheme for that id, for any id, trait methods included.
C1_NeverReplaced == tcx.overwritten = {}

\* C1, amended: from one operation of the pass to the next no tcache entry
\* changes or disappears, and the only entries ever replaced by a different
\* scheme are those of provided static trait methods (convert_methods stores
\* one scheme and make_static_method_ty replaces it during the same convert).
C1_StableBetweenOperations ==
    [][/\ \A id \in DOMAIN tcx.tcache :
            id \in DOMAIN tcx'.tcache /\ tcx'.tcache[id] = tcx.tcache[id]
       /\ tcx'.overwritten \subseteq ProvidedStaticMethodIds]_vars

C1_Witness ==
    /\ ok(tcx)
    /\ tcx.overwritten /= {}
    /\ tcx.overwritten \subseteq DOMAIN tcx.tcache

SchemesInCache == {tcx.tcache[id] : id \in DOMAIN tcx.tcache}

\* C2, as stated: an insert into tcache of a scheme that differs from the entry
\* already present fails and leaves the entry as it was; an insert of the same
\* scheme changes nothing.
C2_DifferingInsertRejected ==
    ok(tcx) =>
        \A id \in DOMAIN tcx.tcache : \A s \in SchemesInCache :
            LET c == tcache_insert(tcx, id, s)
            IN IF s = tcx.tcache[id] THEN c.tcache = tcx.tcache
               ELSE ~ok(c) /\ c.tcache[id] = tcx.tcache[id]

\* C2, amended: an insert into tcache for an id that already has an entry stores
\* the new scheme in place of the old one, reports no error, does not abort and
\* touches no other entry; an insert of the same scheme leaves the table as it was.
C2_InsertReplaces ==
    ok(tcx) =>
        \A id \in DOMAIN tcx.tcache : \A s \in SchemesInCache :
            LET c == tcache_insert(tcx, id, s)
            IN /\ ok(c) /\ c.errors = tcx.errors
               /\ DOMAIN c.tcache = DOMAIN tcx.tcache
               /\ c.tcache[id] = s
               /\ \A other \in DOMAIN tcx.tcache \ {id} :
                      c.tcache[other] = tcx.tcache[other]
               /\ (s = tcx.tcache[id] => c.tcache = tcx.tcache)

C2_Witness ==
    /\ ok(tcx)
    /\ \E id \in tcx.overwritten : \E s \in SchemesInCache : s /= tcx.tcache[id]

\* C3: all the calls of get_item_ty / ty_of_item / ty_of_foreign_item for one
\* id return the same scheme.
C3_SameScheme ==
    \A id \in DOMAIN tcx.returned : Cardinality(tcx.returned[id]) = 1

C3_Witness ==
    \E id \in DOMAIN tcx.returned \cap DOMAIN tcx.built :
        /\ tcx.built[id] >= 2
        /\ \E tpt \in tcx.returned[id] :
              \E i \in DOMAIN tpt.generics.type_param_defs :
                  tpt.generics.type_param_defs[i].bounds.trait_bounds /= <<>>

\* C4, as stated: the scheme of every id, foreign items included, is built at
\* most once.
C4_BuiltAtMostOnce ==
    \A id \in DOMAIN tcx.built : tcx.built[id] <= 1

\* C4, amended: the scheme of a static, fn, type alias, enum or struct is built
\* at most once and then served from tcache; the scheme of a foreign item is
\* built again by every convert_foreign and every get_item_ty for it.
C4_ItemsBuiltOnce ==
    \A id \in DOMAIN tcx.built :
        /\ is_item(id.node) => tcx.built[id] = 1
        /\ is_foreign_item(id.node) =>
              tcx.built[id] <= demands + (IF id.node \in visited THEN 1 ELSE 0)

C4_Witness ==
    /\ \E id \in DOMAIN tcx.built : is_foreign_item(id.node) /\ tcx.built[id] = 1 + demands
    /\ demands > 0

\* C5: in every Generics returned by ty_generics with base index b, the
\* definition at position i (from 0) is that of the i-th parameter of the list
\* and the parameter type its bounds were built for has index b + i, also when
\* the definition came from ty_param_defs.
C5_IndexFromBase ==
    \A g \in tcx.generics :
        /\ Len(g.type_param_defs) = Len(g.params)
        /\ \A i \in DOMAIN g.params :
              LET def == g.type_param_defs[i]
              IN /\ def.def_id = local_def(g.params[i])
                 /\ \A j \in DOMAIN def.bounds.trait_bounds :
                        def.bounds.trait_bounds[j].substs.self_ty =
                            Some(mk_param(g.base_index + (i - 1), local_def(g.params[i])))

C5_Witness ==
    \E g \in tcx.generics :
        /\ g.base_index > 0
        /\ \E i \in g.reused :
              i > 1 /\ g.type_param_defs[i].bounds.trait_bounds /= <<>>

\* the static methods of the traits of the crate: <<trait item, method>>
StaticTraitMethods ==
    UNION {{<<n, m>> : m \in {x \in Range(krate[n].methods) :
                                    x.explicit_self = "SelfStatic"}} :
           n \in Items("ItemTrait")}

\* C6: the scheme in tcache of a static method with m type parameters of a trait
\* with k type parameters has k + 1 + m type parameters: the trait's, then one
\* for Self whose only bound is the trait's own reference over parameters
\* 0..k-1 with Self replaced by parameter k, then the method's in their order,
\* the bounds of the j-th now being bounds of parameter k + 1 + j.
C6_StaticMethodScheme ==
    ok(tcx) =>
        \A nm \in StaticTraitMethods :
            local_def(nm[2].id) \in DOMAIN tcx.tcache =>
                LET trait_def == tcx.trait_defs[local_def(nm[1])]
                    trait_tps == trait_def.generics.type_param_defs
                    method_tps == tcx.methods[local_def(nm[2].id)].generics.type_param_defs
                    k == Len(krate[nm[1]].generics.ty_params)
                    m == Len(nm[2].generics.ty_params)
                    defs == tcx.tcache[local_def(nm[2].id)].generics.type_param_defs
                IN /\ Len(trait_tps) = k /\ Len(method_tps) = m
                   /\ Len(defs) = k + 1 + m
                   /\ \A i \in 1..k : defs[i] = trait_tps[i]
                   /\ defs[k + 1].def_id = dummy_defid
                   /\ defs[k + 1].bounds =
                        [builtin_bounds |-> {},
                         trait_bounds |->
                            <<[def_id |-> local_def(nm[1]),
                               substs |->
                                 [regions |-> trait_def.trait_ref.substs.regions,
                                  self_ty |-> Some(mk_param(k, dummy_defid)),
                                  tps |-> [i \in 1..k |->
                                             mk_param(i - 1, trait_tps[i].def_id)]]]>>]
                   /\ \A j \in 1..m :
                        /\ defs[k + 1 + j].def_id = local_def(nm[2].generics.ty_params[j].id)
                        /\ defs[k + 1 + j].ident = method_tps[j].ident
                        /\ defs[k + 1 + j].bounds.builtin_bounds =
                               method_tps[j].bounds.builtin_bounds
                        /\ Len(defs[k + 1 + j].bounds.trait_bounds) =
                               Len(nm[2].generics.ty_params[j].bounds)
                        /\ \A b \in DOMAIN method_tps[j].bounds.trait_bounds :
                             /\ defs[k + 1 + j].bounds.trait_bounds[b].def_id =
                                    method_tps[j].bounds.trait_bounds[b].def_id
                             /\ method_tps[j].bounds.trait_bounds[b].substs.self_ty =
                                    Some(mk_param(k + (j - 1), method_tps[j].def_id))
                             /\ defs[k + 1 + j].bounds.trait_bounds[b].substs.self_ty =
                                    Some(mk_param(k + 1 + (j - 1), method_tps[j].def_id))

C6_Witness ==
    /\ ok(tcx)
    /\ \E nm \in StaticTraitMethods :
          /\ local_def(nm[2].id) \in DOMAIN tcx.tcache
          /\ Len(krate[nm[1]].generics.ty_params) >= 2
          /\ Len(nm[2].generics.ty_params) >= 2
          /\ nm[2].m = "Required"

duplicate_supertrait == "duplicate supertrait in trait declaration"

\* the positions in the supertrait list of a trait that name a user trait
\* already named at an earlier position
RepeatPositions(n) ==
    {i \in DOMAIN krate[n].supertraits :
        /\ ~try_add_builtin_trait(krate[n].supertraits[i].def.id)
        /\ \E j \in 1..(i - 1) :
              krate[n].supertraits[j].def.id = krate[n].supertraits[i].def.id}

\* the number of references to trait t in the supertraits entry of trait n
SupertraitRefs(n, t) ==
    Cardinality({i \in DOMAIN tcx.supertraits[local_def(n)] :
                    tcx.supertraits[local_def(n)][i].def_id = t})

\* C7: once the supertraits of a trait are recorded, a trait that lists a user
\* supertrait a second time has exactly one "duplicate supertrait" error and its
\* supertraits entry holds exactly one reference to that supertrait (and at most
\* one to any trait); a trait that repeats no supertrait has no such error.
C7_DuplicateSupertrait ==
    \A n \in Items("ItemTrait") :
        local_def(n) \in DOMAIN tcx.supertraits =>
            /\ \A t \in {r.def.id : r \in Range(krate[n].supertraits)} :
                   SupertraitRefs(n, t) <= 1
            /\ IF RepeatPositions(n) = {}
               THEN errors_at(tcx, n, duplicate_supertrait) = 0
               ELSE LET first == CHOOSE i \in RepeatPositions(n) :
                                    \A j \in RepeatPositions(n) : i <= j
                    IN /\ errors_at(tcx, n, duplicate_supertrait) = 1
                       /\ SupertraitRefs(n, krate[n].supertraits[first].def.id) = 1

C7_Witness ==
    \E n \in Items("ItemTrait") :
        /\ local_def(n) \in DOMAIN tcx.supertraits
        /\ Len(krate[n].supertraits) = 2
        /\ RepeatPositions(n) = {2}
        /\ n \in visited

\* the named fields of a struct definition that repeat the name of an earlier field
RepeatedFields(struct_def) ==
    {i \in DOMAIN struct_def.fields :
        /\ struct_def.fields[i].kind = "NamedField"
        /\ \E j \in 1..(i - 1) : /\ struct_def.fields[j].kind = "NamedField"
                                 /\ struct_def.fields[j].name = struct_def.fields[i].name}

\* the struct definitions of the crate: <<id of the struct or variant, definition>>
StructDefs ==
    {<<n, krate[n].struct_def>> : n \in Items("ItemStruct")}
    \cup UNION {{<<v.id, v.struct_def>> :
                    v \in {x \in Range(krate[n].variants) : x.kind = "StructVariantKind"}} :
                n \in Items("ItemEnum")}

\* C8, as stated: a struct with two named fields of one name gets one error and
\* its struct_fields entry holds one field of that name, the first declared.
C8_FirstFieldWins ==
    \A sd \in StructDefs :
        local_def(sd[1]) \in DOMAIN tcx.struct_fields =>
            \A i \in RepeatedFields(sd[2]) :
                LET name == sd[2].fields[i].name
                    recorded == tcx.struct_fields[local_def(sd[1])]
                IN /\ errors_at(tcx, sd[2].fields[i].id, field_declared_msg(name)) = 1
                   /\ Cardinality({j \in DOMAIN recorded : recorded[j].name = name}) = 1
                   /\ \A j \in DOMAIN recorded :
                          recorded[j].id /= local_def(sd[2].fields[i].id)

\* C8, amended: a struct with two named fields of one name gets one error, at
\* the second declaration, and its struct_fields entry still holds every
\* declared field in declaration order, both fields of that name included,
\* each with its own id; tcache and the node types hold each field's own type.
C8_BothFieldsRecorded ==
    \A sd \in StructDefs :
        local_def(sd[1]) \in DOMAIN tcx.struct_fields =>
            LET recorded == tcx.struct_fields[local_def(sd[1])]
            IN /\ Len(recorded) = Len(sd[2].fields)
               /\ \A i \in DOMAIN sd[2].fields :
                    /\ recorded[i].id = local_def(sd[2].fields[i].id)
                    /\ sd[2].fields[i].kind = "NamedField" =>
                          recorded[i].name = sd[2].fields[i].name
                    /\ tcx.tcache[recorded[i].id].ty = tcx.node_types[sd[2].fields[i].id]
                    /\ errors_at(tcx, sd[2].fields[i].id,
                                 field_declared_msg(recorded[i].name)) =
                           (IF i \in RepeatedFields(sd[2]) THEN 1 ELSE 0)

C8_Witness ==
    \E sd \in StructDefs :
        /\ local_def(sd[1]) \in DOMAIN tcx.struct_fields
        /\ \E i \in RepeatedFields(sd[2]) : \E j \in 1..(i - 1) :
              /\ sd[2].fields[j].name = sd[2].fields[i].name
              /\ tcx.node_types[sd[2].fields[j].id] /= tcx.node_types[sd[2].fields[i].id]

NoBoundsMsgs == {no_bounds_msg(thing) : thing \in {"enumeration", "structure", "type"}}

HasBoundedParam(generics) ==
    \E i \in DOMAIN generics.ty_params : Len(generics.ty_params[i].bounds) > 0

\* the scheme of id is in tcache and has one parameter definition per declared
\* parameter of each of the lists, in order, with one trait bound per declared
\* bound on a user trait
SchemeCachedFor(id, lists) ==
    /\ local_def(id) \in DOMAIN tcx.tcache
    /\ LET params == IF Len(lists) = 1 THEN lists[1].ty_params
                     ELSE lists[1].ty_params \o lists[2].ty_params
           defs == tcx.tcache[local_def(id)].generics.type_param_defs
       IN /\ Len(defs) = Len(params)
          /\ \A i \in DOMAIN params :
                /\ defs[i].def_id = local_def(params[i].id)
                /\ Len(defs[i].bounds.trait_bounds) =
                      Cardinality({j \in DOMAIN params[i].bounds :
                                     /\ params[i].bounds[j].b = "TraitTyParamBound"
                                     /\ ~try_add_builtin_trait(params[i].bounds[j].tref.def.id)})

RECURSIVE selfs_of(_)
selfs_of(t) ==
    CASE t.sty = "ty_self" -> {t}
      [] t.sty \in {"ty_struct", "ty_enum"} ->
            UNION {selfs_of(t.substs.tps[i]) : i \in DOMAIN t.substs.tps}
      [] t.sty = "ty_bare_fn" ->
            UNION {selfs_of(t.inputs[i]) : i \in DOMAIN t.inputs} \cup selfs_of(t.output)
      [] OTHER -> {}

\* the self type to substitute for the self types of t: the one t mentions, if any
SelfFor(t) == IF selfs_of(t) = {} THEN {None} ELSE {Some(x) : x \in selfs_of(t)}

\* mk_item_substs(g, self) has one type per type parameter of g and one region
\* per region parameter, in order: the i-th type (from 0) is the parameter with
\* index i and the def id of the i-th definition, the i-th region the
\* early-bound region with index i and the name of the i-th region parameter
IdentitySubsts(g, self) ==
    LET substs == mk_item_substs(g, self)
    IN /\ substs.self_ty = self
       /\ Len(substs.tps) = Len(g.type_param_defs)
       /\ Len(substs.regions) = Len(g.region_param_defs)
       /\ \A i \in DOMAIN g.type_param_defs :
              /\ substs.tps[i].sty = "ty_param"
              /\ substs.tps[i].idx = i - 1
              /\ substs.tps[i].def_id = g.type_param_defs[i].def_id
       /\ \A i \in DOMAIN g.region_param_defs :
              /\ substs.regions[i].index = i - 1
              /\ substs.regions[i].name = g.region_param_defs[i].name
              /\ substs.regions[i].node = g.region_param_defs[i].def_id.node

ArgTypeMatches(ast_ty, t) ==
    CASE ast_ty.t = "TyInt" -> t = mk_int
      [] ast_ty.t = "TyParam" -> t = mk_param(ast_ty.idx, local_def(ast_ty.id))
      [] ast_ty.t = "TyPath" ->
            /\ t.sty \in {"ty_struct", "ty_enum"}
            /\ t.def_id = local_def(ast_ty.id)
            /\ Len(t.substs.tps) = Len(ast_ty.args)
      [] OTHER -> TRUE

\* C11: once an enum is converted, each variant's scheme is in tcache under the
\* variant's own id with the enum's generics; a tuple variant with arguments
\* has a function type from its argument types to the enum type, a variant
\* without payload the enum type itself, a struct-like variant a function type
\* from its field types to the enum type, and the fields of a struct-like
\* variant are in struct_fields under the variant's id.
C11_VariantSchemes ==
    ok(tcx) =>
        \A n \in Items("ItemEnum") \cap visited :
            LET enum == tcx.tcache[local_def(n)]
            IN /\ enum.ty.sty = "ty_enum" /\ enum.ty.def_id = local_def(n)
               /\ \A v \in Range(krate[n].variants) :
                    /\ local_def(v.id) \in DOMAIN tcx.tcache
                    /\ tcx.tcache[local_def(v.id)].generics = enum.generics
                    /\ LET ty == tcx.tcache[local_def(v.id)].ty
                       IN CASE v.kind = "TupleVariantKind" /\ Len(v.args) > 0 ->
                                 /\ ty.sty = "ty_bare_fn"
                                 /\ ty.output = enum.ty
                                 /\ Len(ty.inputs) = Len(v.args)
                                 /\ \A i \in DOMAIN v.args :
                                        ArgTypeMatches(v.args[i], ty.inputs[i])
                            [] v.kind = "TupleVariantKind" -> ty = enum.ty
                            [] v.kind = "StructVariantKind" ->
                                 /\ ty.sty = "ty_bare_fn"
                                 /\ ty.output = enum.ty
                                 /\ Len(ty.inputs) = Len(v.struct_def.fields)
                                 /\ \A i \in DOMAIN v.struct_def.fields :
                                        /\ ArgTypeMatches(v.struct_def.fields[i].ty,
                                                          ty.inputs[i])
                                        /\ ty.inputs[i] =
                                             tcx.tcache[local_def(v.struct_def.fields[i].id)].ty
                                 /\ local_def(v.id) \in DOMAIN tcx.struct_fields
                                 /\ [i \in DOMAIN tcx.struct_fields[local_def(v.id)] |->
                                        tcx.struct_fields[local_def(v.id)][i].name]
                                      = [i \in DOMAIN v.struct_def.fields |->
                                            v.struct_def.fields[i].name]

C11_Witness ==
    /\ ok(tcx)
    /\ \E n \in Items("ItemEnum") \cap visited :
          /\ Len(tcx.tcache[local_def(n)].generics.type_param_defs) >= 2
          /\ \E v \in Range(krate[n].variants) :
                v.kind = "StructVariantKind" /\ local_def(v.id) \in DOMAIN tcx.struct_fields
          /\ \E v \in Range(krate[n].variants) :
                v.kind = "TupleVariantKind" /\ Len(v.args) = 0
          /\ \E v \in Range(krate[n].variants) :
                /\ v.kind = "TupleVariantKind" /\ Len(v.args) >= 2
                /\ tcx.tcache[local_def(v.id)].ty.sty = "ty_bare_fn"

\* C12: once a struct is converted, superstructs holds None for it when it
\* declares no superstruct, and the declared parent's id when the parent is a
\* struct; the parent's use as a superstruct has exactly one error when the
\* parent is not virtual and none when it is.
C12_SuperstructRecorded ==
    ok(tcx) =>
        \A n \in Items("ItemStruct") \cap visited :
            /\ local_def(n) \in DOMAIN tcx.superstructs
            /\ IF ~is_some(krate[n].struct_def.super_struct)
               THEN tcx.superstructs[local_def(n)] = None
               ELSE LET p == unwrap(krate[n].struct_def.super_struct).id
                    IN krate[p].node = "ItemStruct" =>
                          /\ tcx.superstructs[local_def(n)] = Some(local_def(p))
                          /\ errors_at(tcx, p, not_virtual_msg) =
                                (IF krate[p].struct_def.is_virtual THEN 0 ELSE 1)

C12_Witness ==
    /\ ok(tcx)
    /\ \E n \in Items("ItemStruct") \cap visited :
          /\ is_some(krate[n].struct_def.super_struct)
          /\ is_some(tcx.superstructs[local_def(n)])
          /\ errors_at(tcx, unwrap(krate[n].struct_def.super_struct).id, not_virtual_msg) = 1
          /\ ~krate[unwrap(tcx.superstructs[local_def(n)]).node].struct_def.is_virtual

(***************************************************************************)
(* C13: asking for the type scheme of a local trait ends the compilation   *)
(* with the internal error "invoked ty_of_item on trait" whatever the      *)
(* tables hold, and leaves tcache as it was; no state has a tcache entry   *)
(* under a trait's id; converting a trait records its TraitDef in          *)
(* trait_defs.                                                             *)
(***************************************************************************)
C13_TraitHasNoScheme ==
    /\ [](\A n \in Items("ItemTrait") : local_def(n) \notin DOMAIN tcx.tcache)
    /\ [][\A n \in Items("ItemTrait") :
            /\ GetItemTy(n) =>
                  /\ tcx'.fault = "bug"
                  /\ tcx'.ice = Some(<<n, on_trait_msg>>)
                  /\ tcx'.tcache = tcx.tcache
            /\ Convert(n) /\ ok(tcx') => local_def(n) \in DOMAIN tcx'.trait_defs]_vars

\* a trait was converted, and then its type scheme was asked for
C13_Witness ==
    \E n \in Items("ItemTrait") :
        /\ n \in visited
        /\ local_def(n) \in DOMAIN tcx.trait_defs
        /\ local_def(n) \notin DOMAIN tcx.tcache
        /\ tcx.ice = Some(<<n, on_trait_msg>>)

\* the items whose conversion stores a scheme under the item's own id
SchemeItemKinds ==
    {"ItemStatic", "ItemFn", "ItemTy", "ItemEnum", "ItemStruct", "ItemImpl"}
        \cup ForeignItemKinds

\* the ids declared inside item n that get a scheme of their own: the variants
\* of an enum and the fields of its struct-like variants, the fields of a
\* struct, the methods of an impl
MemberIds(n) ==
    CASE krate[n].node = "ItemEnum" ->
            {v.id : v \in Range(krate[n].variants)}
            \cup UNION {{f.id : f \in Range(v.struct_def.fields)} :
                        v \in {x \in Range(krate[n].variants) :
                                    x.kind = "StructVariantKind"}}
      [] krate[n].node = "ItemStruct" -> {f.id : f \in Range(krate[n].struct_def.fields)}
      [] krate[n].node = "ItemImpl" -> {m.id : m \in Range(krate[n].methods)}
      [] OTHER -> {}

\* C14: while no fatal error has occurred, every visited static, fn, type
\* alias, enum, struct, impl and foreign item has a tcache entry under its own
\* id, and so has every variant, struct field and impl method it declares.
C14_VisitedHaveSchemes ==
    ok(tcx) =>
        \A n \in visited :
            krate[n].node \in SchemeItemKinds =>
                /\ local_def(n) \in DOMAIN tcx.tcache
                /\ \A id \in MemberIds(n) : local_def(id) \in DOMAIN tcx.tcache

\* the whole of a crate with an item of every kind has been visited
C14_Witness ==
    /\ ok(tcx)
    /\ visited = {n \in DOMAIN krate : is_item(n) \/ is_foreign_item(n)}
    /\ {krate[n].node : n \in visited} \cap SchemeItemKinds
         = SchemeItemKinds \ {"ForeignItemStatic"}
    /\ \A n \in visited : MemberIds(n) \subseteq {id.node : id \in DOMAIN tcx.tcache}
    /\ UNION {MemberIds(n) : n \in visited} /= {}

\* the cell of the buffer that index ofs of the CVec stands for
CellOf(ofs) == mut_offset(cvec.base, as_int(ofs))

(***************************************************************************)
(* C15: for a CVec of length n over a buffer of n cells, get(ofs) and      *)
(* set(ofs, v) with ofs >= n fail and touch no cell; with ofs < n, set     *)
(* writes v to the cell of ofs and to no other, and a get(ofs) that        *)
(* follows it returns v; len() returns n, which no call changes.           *)
(***************************************************************************)
C15_CVecBounds ==
    /\ [](Running => cvec.len = Cardinality(DOMAIN mem))
    /\ [][/\ cvec'.len = cvec.len
          /\ LenCall => last'.ret = Some(cvec.len)
          /\ \A ofs \in 0..(MaxLen + 1) :
               /\ (ofs >= cvec.len /\ (Get(ofs) \/ \E v \in Vals : Set(ofs, v))) =>
                     /\ cvec'.task = "failed"
                     /\ last'.touched = {}
                     /\ \A a \in DOMAIN mem' : mem'[a] = mem[a]
               /\ ofs < cvec.len =>
                     /\ \A v \in Vals : Set(ofs, v) =>
                           /\ cvec'.task = "running"
                           /\ DOMAIN mem' = DOMAIN mem
                           /\ mem'[CellOf(ofs)] = Some(v)
                           /\ \A a \in DOMAIN mem \ {CellOf(ofs)} : mem'[a] = mem[a]
                     /\ Get(ofs) =>
                           /\ cvec'.task = "running"
                           /\ mem' = mem
                           /\ last.op = "set" /\ last.ofs = ofs => last'.ret = Some(last.v)
         ]_vars

\* a get of the last index of the longest CVec returned the value set there
C15_Witness ==
    /\ Running /\ cvec.len = MaxLen
    /\ last.op = "get" /\ last.ofs = MaxLen - 1
    /\ mem[CellOf(last.ofs)] = Some(MaxVal)
    /\ last.ret = Some(MaxVal)
    /\ \E a \in DOMAIN mem : mem[a] = Some(0)

forward_msg == "type parameters with a default cannot use forward declared identifiers"

\* the type parameters with a default of the visited items, as <<item, position>>
DefaultedParams ==
    {<<n, i>> \in (Items("ItemStruct") \cap visited) \X (1..2) :
        /\ i \in DOMAIN krate[n].generics.ty_params
        /\ is_some(krate[n].generics.ty_params[i].default)}

\* the indices of the parameters that the default of parameter i of item n mentions
MentionedBy(n, i) ==
    LET default == unwrap(krate[n].generics.ty_params[i].default)
    IN IF default.t = "TyParam" THEN {default.idx} ELSE {}

\* the default recorded in ty_param_defs for parameter i of item n is its type
DefaultRecorded(n, i) ==
    LET param == krate[n].generics.ty_params[i]
    IN /\ param.id \in DOMAIN tcx.ty_param_defs
       /\ is_some(tcx.ty_param_defs[param.id].default)
       /\ ArgTypeMatches(unwrap(param.default), unwrap(tcx.ty_param_defs[param.id].default))

\* C16, as stated: the default of the type parameter at index i gets an error
\* exactly when it mentions a parameter of index >= i, itself included, and is
\* recorded either way.
C16_ForwardOrSelfDefault ==
    ok(tcx) =>
        \A x \in DefaultedParams :
            /\ DefaultRecorded(x[1], x[2])
            /\ errors_at(tcx, krate[x[1]].generics.ty_params[x[2]].id, forward_msg) > 0
                 <=> \E j \in MentionedBy(x[1], x[2]) : j >= x[2] - 1

\* what the code does: the error is for a parameter of index > i only, once for
\* each mention
C16_ForwardDefault ==
    ok(tcx) =>
        \A x \in DefaultedParams :
            /\ DefaultRecorded(x[1], x[2])
            /\ errors_at(tcx, krate[x[1]].generics.ty_params[x[2]].id, forward_msg)
                 = Cardinality({j \in MentionedBy(x[1], x[2]) : j > x[2] - 1})

\* struct D<A = B, B> was converted and its default reported; so was
\* struct D<A, B = B>, without a report
C16_Witness ==
    /\ ok(tcx)
    /\ \E x \in DefaultedParams :
          /\ x[2] - 1 \in MentionedBy(x[1], x[2])
          /\ DefaultRecorded(x[1], x[2])
          /\ errors_at(tcx, krate[x[1]].generics.ty_params[x[2]].id, forward_msg) = 0

duplicate_method_msg == "duplicate method in trait impl"

\* the methods of item n that repeat the name of an earlier method of its list
RepeatedMethods(n) ==
    {krate[n].methods[i] : i \in
        {i \in DOMAIN krate[n].methods :
            \E j \in 1..(i - 1) : krate[n].methods[j].ident = krate[n].methods[i].ident}}

\* the provided methods of a trait that repeat the name of an earlier provided
\* method, and the methods of an impl that repeat the name of an earlier method
RepeatedConverted(n) ==
    LET ms == IF krate[n].node = "ItemTrait"
              THEN provided_methods(krate[n].methods) ELSE krate[n].methods
    IN {ms[i] : i \in {i \in DOMAIN ms : \E j \in 1..(i - 1) : ms[j].ident = ms[i].ident}}

MethodItems == (Items("ItemTrait") \cup Items("ItemImpl")) \cap visited

\* C17, as stated: once a trait or an impl is converted, every method of its list
\* that repeats the name of an earlier one, provided or required, has an error,
\* the conversion has not aborted, and every method of the list is in methods.
C17_DuplicatesReported ==
    ok(tcx) =>
        \A n \in MethodItems :
            /\ \A m \in RepeatedMethods(n) : errors_at(tcx, m.id, duplicate_method_msg) > 0
            /\ \A m \in Range(krate[n].methods) : local_def(m.id) \in DOMAIN tcx.methods

\* what the code does: the error is for the methods convert_methods is given,
\* which for a trait are the provided ones
C17_ConvertedDuplicatesReported ==
    ok(tcx) =>
        \A n \in MethodItems :
            /\ \A m \in Range(krate[n].methods) :
                  errors_at(tcx, m.id, duplicate_method_msg)
                      = IF m \in RepeatedConverted(n) THEN 1 ELSE 0
            /\ \A m \in Range(krate[n].methods) : local_def(m.id) \in DOMAIN tcx.methods

\* a trait with two required methods of one name was converted without an error
C17_Witness ==
    /\ ok(tcx)
    /\ \E n \in Items("ItemTrait") \cap visited :
         \E m \in RepeatedMethods(n) :
            /\ m.m = "Required"
            /\ local_def(m.id) \in DOMAIN tcx.methods
            /\ errors_at(tcx, m.id, duplicate_method_msg) = 0

\* the visibility recorded in methods for method m
RecordedVis(m) == tcx.methods[local_def(m.id)].vis

\* C18, as stated: the visibility recorded for a method of a converted impl is
\* the one the method declares, or the impl item's when it declares none, in
\* inherent impls and trait impls alike.
C18_VisibilityFromImpl ==
    ok(tcx) =>
        \A n \in Items("ItemImpl") \cap visited :
            \A m \in Range(krate[n].methods) :
                RecordedVis(m) = IF m.vis /= "Inherited" THEN m.vis ELSE krate[n].vis

\* C18, amended: a method that declares no visibility gets the impl item's in an
\* inherent impl and Public in a trait impl.
C18_VisibilityPublicInTraitImpl ==
    ok(tcx) =>
        \A n \in Items("ItemImpl") \cap visited :
            \A m \in Range(krate[n].methods) :
                RecordedVis(m) =
                    IF m.vis /= "Inherited" THEN m.vis
                    ELSE IF is_some(krate[n].opt_trait_ref) THEN "Public"
                    ELSE krate[n].vis

\* a method without a visibility of its own, in a trait impl that is not public,
\* was recorded as Public
C18_Witness ==
    /\ ok(tcx)
    /\ \E n \in Items("ItemImpl") \cap visited :
          /\ is_some(krate[n].opt_trait_ref)
          /\ krate[n].vis = "Inherited"
          /\ \E m \in Range(krate[n].methods) :
                m.vis = "Inherited" /\ RecordedVis(m) = "Public"

\* the traits of the crate that are their own supertrait at one remove
MutualSupertraits ==
    {n \in Items("ItemTrait") :
        \E t \in Range(krate[n].supertraits) :
            /\ t.def.id.krate = LOCAL_CRATE /\ t.def.id.node \in Items("ItemTrait")
            /\ \E u \in Range(krate[t.def.id.node].supertraits) : u.def.id = local_def(n)}

\* C19, as stated: no resolution recurses until the stack is exhausted; a cycle
\* of supertraits ends it with an internal error.
C19_CycleDetected == tcx.fault /= "overflow"

\* two traits that name each other as supertraits: the resolution of one of
\* them has exhausted the stack, with neither trait recorded
C19_Witness ==
    /\ tcx.fault = "overflow"
    /\ MutualSupertraits /= {}
    /\ \A n \in MutualSupertraits :
          local_def(n) \notin DOMAIN tcx.trait_defs \cup DOMAIN tcx.supertraits

\* the nodes of the given kinds that the visitor has not reached yet
Unvisited(kinds) == {n \in DOMAIN krate : krate[n].node \in kinds} \ visited

\* a demand for the scheme of an unvisited item of these kinds succeeds, and
\* when the visitor reaches an item of these kinds whose scheme was returned
\* before, tcache holds that very scheme afterwards
OrderIndependent(kinds) ==
    \A n \in Unvisited(kinds) :
        /\ GetItemTy(n) =>
              /\ ok(tcx')
              /\ local_def(n) \in DOMAIN tcx'.returned
        /\ (Convert(n) \/ ConvertForeign(n)) /\ ok(tcx')
              /\ local_def(n) \in DOMAIN tcx.returned =>
                    tcx.returned[local_def(n)] = {tcx'.tcache[local_def(n)]}

\* C20, as stated: for statics, fns, type aliases, enums, structs, impls and
\* foreign items, get_item_ty before the visit succeeds and returns the scheme
\* that tcache holds after the visit.
C20_OrderIndependent == [][OrderIndependent(SchemeItemKinds)]_vars

\* C20, amended: the same without impls; a demand for the scheme of an impl
\* that was not visited yet ends the compilation.
C20_OrderIndependentButImpls ==
    [][/\ OrderIndependent(SchemeItemKinds \ {"ItemImpl"})
       /\ \A n \in Unvisited({"ItemImpl"}) : GetItemTy(n) => tcx'.fault = "fail"]_vars

\* the scheme of a generic item was demanded and returned before the visitor
\* reached the item
C20_Witness ==
    /\ ok(tcx) /\ demands > 0
    /\ \E n \in Unvisited(SchemeItemKinds \ {"ItemImpl"}) :
          /\ local_def(n) \in DOMAIN tcx.returned
          /\ local_def(n) \in DOMAIN tcx.tcache
          /\ tcx.returned[local_def(n)] = {tcx.tcache[local_def(n)]}
          /\ tcx.tcache[local_def(n)].generics.type_param_defs /= <<>>

\* the scheme make_static_method_ty writes for the method recorded under id, a
\* method of trait n
TransformedScheme(n, id) ==
    static_method_scheme(R(tcx, tcx.trait_defs[local_def(n)]),
                         static_method_substs(tcx.methods[id],
                                              tcx.trait_defs[local_def(n)].generics),
                         tcx.methods[id],
                         tcx.trait_defs[local_def(n)].generics).tcache[id]

\* the scheme convert_methods writes for that method
NaiveScheme(n, id) ==
    [generics |->
        [type_param_defs |-> tcx.trait_defs[local_def(n)].generics.type_param_defs
                                \o tcx.methods[id].generics.type_param_defs,
         region_param_defs |-> tcx.trait_defs[local_def(n)].generics.region_param_defs
                                \o tcx.methods[id].generics.region_param_defs],
     ty |-> mk_bare_fn(tcx.methods[id].fty)]

\* C21: once a trait is converted, the tcache entry of each of its static
\* methods, provided or required, is the scheme make_static_method_ty writes
\* and not the one convert_methods writes, also when ensure_trait_methods was
\* run for the trait before.
C21_StaticSchemeFinal ==
    ok(tcx) =>
        \A nm \in StaticTraitMethods :
            nm[1] \in visited =>
                /\ local_def(nm[2].id) \in DOMAIN tcx.tcache
                /\ tcx.tcache[local_def(nm[2].id)] = TransformedScheme(nm[1], local_def(nm[2].id))
                /\ tcx.tcache[local_def(nm[2].id)] /= NaiveScheme(nm[1], local_def(nm[2].id))

\* a converted trait, demanded before, whose provided static method had its
\* entry replaced
C21_Witness ==
    /\ ok(tcx) /\ demands > 0
    /\ \E nm \in StaticTraitMethods :
          /\ nm[1] \in visited
          /\ nm[2].m = "Provided"
          /\ local_def(nm[2].id) \in tcx.overwritten
          /\ Len(nm[2].generics.ty_params) >= 1
          /\ tcx.tcache[local_def(nm[2].id)] = TransformedScheme(nm[1], local_def(nm[2].id))

\* the methods convert_methods has converted whose entry it wrote last: those of
\* the visited impls and the provided methods with a self of the visited traits,
\* as <<item, method>>
ConvertedMethods ==
    UNION {{<<n, m>> : m \in {x \in Range(krate[n].methods) :
                                \/ krate[n].node = "ItemImpl"
                                \/ x.m = "Provided" /\ x.explicit_self /= "SelfStatic"}} :
           n \in MethodItems}

\* the generics of the receiver of the methods of item n
RcvrGenerics(n) ==
    IF krate[n].node = "ItemImpl" THEN tcx.tcache[local_def(n)].generics
    ELSE tcx.trait_defs[local_def(n)].generics

KeptPositions(n) ==
    {i \in DOMAIN krate[n].supertraits : \A j \in RepeatPositions(n) : i < j}

\* C23: the supertraits entry of a trait holds the user supertraits listed before
\* the first repeated one, in order, and nothing listed after it; the bound set
\* of the trait holds the built-in kinds listed before it and none listed only
\* after it; without a repeat, all of the list is processed.
C23_StopsAtDuplicate ==
    \A n \in Items("ItemTrait") :
        local_def(n) \in DOMAIN tcx.trait_defs =>
            /\ local_def(n) \in DOMAIN tcx.supertraits
            /\ [i \in DOMAIN tcx.supertraits[local_def(n)] |->
                    tcx.supertraits[local_def(n)][i].def_id]
                 = SelectSeq([i \in DOMAIN krate[n].supertraits |->
                                 IF i \in KeptPositions(n)
                                 THEN krate[n].supertraits[i].def.id ELSE send_defid],
                             LAMBDA x : ~try_add_builtin_trait(x))
            /\ tcx.trait_defs[local_def(n)].bounds
                 = {unwrap(to_builtin_kind(krate[n].supertraits[i].def.id)) :
                      i \in {j \in KeptPositions(n) :
                                try_add_builtin_trait(krate[n].supertraits[j].def.id)}}

\* a trait whose list goes on after the repeated supertrait with a user trait
\* and a built-in kind has its supertraits recorded
C23_Witness ==
    \E n \in Items("ItemTrait") :
        /\ local_def(n) \in DOMAIN tcx.trait_defs
        /\ RepeatPositions(n) /= {}
        /\ \E i, j \in DOMAIN krate[n].supertraits \ KeptPositions(n) :
              /\ i \notin RepeatPositions(n)
              /\ try_add_builtin_trait(krate[n].supertraits[j].def.id)
        /\ Len(tcx.supertraits[local_def(n)]) = 1
        /\ tcx.trait_defs[local_def(n)].bounds = {}
        /\ errors_at(tcx, n, duplicate_supertrait) = 1

\* every method of the visited trait n is recorded in methods under its own id
\* with the trait as container, and trait_method_def_ids lists the methods of
\* the trait in declaration order
TraitMethodsRegistered(n) ==
    /\ \A m \in Range(krate[n].methods) :
          /\ local_def(m.id) \in DOMAIN tcx.methods
          /\ tcx.methods[local_def(m.id)].def_id = local_def(m.id)
          /\ tcx.methods[local_def(m.id)].container
               = [c |-> "TraitContainer", id |-> local_def(n)]
    /\ local_def(n) \in DOMAIN tcx.trait_method_def_ids
    /\ tcx.trait_method_def_ids[local_def(n)]
         = [i \in DOMAIN krate[n].methods |-> local_def(krate[n].methods[i].id)]

\* C24, as stated: once a trait is converted, every method it declares is
\* registered and has a scheme in tcache under its own id.
C24_AllMethodsHaveSchemes ==
    ok(tcx) =>
        \A n \in Items("ItemTrait") \cap visited :
            /\ TraitMethodsRegistered(n)
            /\ \A m \in Range(krate[n].methods) : local_def(m.id) \in DOMAIN tcx.tcache

\* C24, amended: every method is registered; the provided methods and the
\* static methods have a scheme in tcache, the required methods with a self
\* have none.
C24_ProvidedOrStaticHaveSchemes ==
    ok(tcx) =>
        \A n \in Items("ItemTrait") \cap visited :
            /\ TraitMethodsRegistered(n)
            /\ \A m \in Range(krate[n].methods) :
                  local_def(m.id) \in DOMAIN tcx.tcache
                      <=> (m.m = "Provided" \/ m.explicit_self = "SelfStatic")

\* a converted trait with a required method with a self, registered and without
\* a scheme, next to methods of the three other sorts with a scheme
C24_Witness ==
    /\ ok(tcx)
    /\ \E n \in Items("ItemTrait") \cap visited :
          /\ TraitMethodsRegistered(n)
          /\ \E m \in Range(krate[n].methods) :
                /\ m.m = "Required" /\ m.explicit_self /= "SelfStatic"
                /\ local_def(m.id) \notin DOMAIN tcx.tcache
          /\ Cardinality({m.id : m \in Range(krate[n].methods)}
                            \cap {id.node : id \in DOMAIN tcx.tcache}) = 3

C26_StructNodeTypeIsOwn ==
    ok(tcx) =>
        \A n \in Items("ItemStruct") \cap visited :
            /\ n \in DOMAIN tcx.node_types
            /\ local_def(n) \in DOMAIN tcx.tcache
            /\ tcx.node_types[n] = tcx.tcache[local_def(n)].ty

\* a converted struct with a superstruct whose node type is the type of the
\* superstruct and not its own
C26_Witness ==
    /\ ok(tcx)
    /\ \E n \in Items("ItemStruct") \cap visited :
          /\ is_some(krate[n].struct_def.super_struct)
          /\ LET p == unwrap(krate[n].struct_def.super_struct).id
             IN /\ krate[p].node = "ItemStruct"
                /\ local_def(p) \in DOMAIN tcx.tcache
                /\ tcx.node_types[n] = tcx.tcache[local_def(p)].ty
                /\ tcx.node_types[n] /= tcx.tcache[local_def(n)].ty

\* a converted struct without a superstruct keeps its own type as node type
C26_NoSuperstructOwnType ==
    ok(tcx) =>
        \A n \in Items("ItemStruct") \cap visited :
            ~is_some(krate[n].struct_def.super_struct) =>
                tcx.node_types[n] = tcx.tcache[local_def(n)].ty

(***************************************************************************)
(* C27: the region parameters of the scheme of a static trait method       *)
(***************************************************************************)
\* C27: once a trait is converted, the scheme cached for each of its static
\* methods lists as region parameters the lifetime parameters of the trait,
\* unchanged and in order, and then the early-bound lifetime parameters the
\* method declares: no lifetime parameter of the scheme convert_methods writes
\* is missing.
C27_StaticSchemeRegions ==
    ok(tcx) =>
        \A nm \in StaticTraitMethods :
            nm[1] \in visited =>
                /\ local_def(nm[2].id) \in DOMAIN tcx.tcache
                /\ tcx.tcache[local_def(nm[2].id)].generics.region_param_defs =
                      tcx.trait_defs[local_def(nm[1])].generics.region_param_defs
                      \o tcx.methods[local_def(nm[2].id)].generics.region_param_defs
                /\ tcx.tcache[local_def(nm[2].id)].generics.region_param_defs =
                      NaiveScheme(nm[1], local_def(nm[2].id)).generics.region_param_defs

\* a converted trait with a lifetime parameter whose static method declares an
\* early-bound lifetime parameter, and the cached scheme of the method lists
\* only the trait's
C27_Witness ==
    /\ ok(tcx)
    /\ \E nm \in StaticTraitMethods :
          /\ nm[1] \in visited
          /\ early_bound_lifetimes(nm[2].generics) /= <<>>
          /\ Len(tcx.methods[local_def(nm[2].id)].generics.region_param_defs) =
                Len(early_bound_lifetimes(nm[2].generics))
          /\ tcx.trait_defs[local_def(nm[1])].generics.region_param_defs /= <<>>
          /\ tcx.tcache[local_def(nm[2].id)].generics.region_param_defs =
                tcx.trait_defs[local_def(nm[1])].generics.region_param_defs

====
